---- MODULE Spec2Model ----
(***************************************************************************)
(* SimCore (src/src/SimCore.hpp): the fixed-timestep pacing loop           *)
(* (run / advance), the per-step phase walk (doOneStep), and the parallel  *)
(* range dispatcher (publication by the driver, workerLoop and             *)
(* processActiveRange on the persistent worker threads).                   *)
(*                                                                         *)
(* Time is counted in whole microseconds.  Every atomic operation of the   *)
(* source (load, store, fetch_add, fetch_sub) is one step; the plain       *)
(* stores to the fields of active_ are separate steps, because workers     *)
(* read them without synchronisation.  Steps that touch only driver-local  *)
(* data are folded into the neighbouring step.                             *)
(***************************************************************************)
EXTENDS Integers, Sequences, FiniteSets, Bags, TLC

(* ------------------------------ bounds -------------------------------- *)
\* largest frame budget explored
MaxFrames == 2
\* frame at which a run without budget (maxFrames < 0) is cut off
FrameCap == 3
\* largest maxCatchUp explored
MaxCatchUpBound == 2
\* the deadline wait may overrun by up to MaxLate half-periods
MaxLate == 5
\* nextChunk_ values at or above NextCap are not told apart (all of them
\* are >= every totalChunks of the model)
NextCap == 3
\* the same in the runs that count the claims of the driver's wait loop
SpinCap == 4
\* size of the modelled element arrays
MaxElems == 3
\* calls of applySettings after construction
MaxApplies == 1
\* log() calls made on the Logger
MaxLogCalls == 2
\* sinks attached to the Logger
MaxSinks == 2
\* setLevel() calls made on the Logger
MaxSetLevels == 1
\* largest capacity of a RingBufferSink
MaxCap == 3
\* write() calls made on a RingBufferSink
MaxWrites == 5
\* most worker threads of a WorkerPool
MaxPoolThreads == 2
\* largest count handed to parallel_for
MaxCount == 2
\* parallel_for calls made on one WorkerPool
MaxCalls == 2
\* finished_ is followed up to this value
FinishedCap == 3
\* frame_ of the sub-stepping SimCore is followed up to this value
OuterFrameCap == 6
\* whole outer periods a wait of the sub-stepping run() may end late
OuterMaxLate == 2

(* std::size_t arithmetic wraps; the model keeps 16 of the 64 bits *)
SizeMod == 2^16

NoTask == <<0, 0>>
NoRun == [task |-> NoTask, b |-> 0, e |-> 0, f |-> -1]

Min(a, b) == IF a < b THEN a ELSE b
Max(a, b) == IF a > b THEN a ELSE b

(* --------------------------- timing model ------------------------------ *)
CeilDiv(a, b) == (a + b - 1) \div b

\* recalcTiming with the quotient hz / 1000 rounded down
recalcTimingFloor(hz) ==
    LET sub == IF hz > 1000 THEN hz \div 1000 ELSE 1
        dt  == 1000000 \div hz
    IN  [subSteps |-> sub, dtMicro |-> dt, outerDt |-> dt * sub]

\* recalcTiming: subSteps_, dtMicro_ and outerDt_ from settings_.hz; the
\* durations in whole microseconds
recalcTiming(hz) ==
    LET sub == IF hz > 1000 THEN CeilDiv(hz, 1000) ELSE 1
        dt  == 1000000 \div hz
    IN  [subSteps |-> sub, dtMicro |-> dt, outerDt |-> dt * sub]

\* the repairs without the one of threads
applySettingsKeepThreads(s) ==
    [s EXCEPT !.hz         = IF s.hz <= 0 THEN 1 ELSE s.hz,
              !.maxCatchUp = IF s.maxCatchUp < 0 THEN 0 ELSE s.maxCatchUp]

\* applySettings: the three repairs, every other field stored as given
applySettings(s) ==
    [s EXCEPT !.hz         = IF s.hz <= 0 THEN 1 ELSE s.hz,
              !.threads    = IF s.threads = 0 THEN 1 ELSE s.threads,
              !.maxCatchUp = IF s.maxCatchUp < 0 THEN 0 ELSE s.maxCatchUp]

(* ------------------------------ state ---------------------------------- *)
VARIABLES
    settings,          \* settings_
    phases,            \* phases_: sequence of Phase records
    timing,            \* subSteps_, dtMicro_, outerDt_
    frame,             \* frame_
    terminate,         \* terminate_
    now,               \* the steady clock
    startReal,         \* startReal_
    nextFrameTarget,   \* nextFrameTarget_
    threadCount,       \* threadCount_
    shutdown,          \* shutdown_
    active,            \* active_ (ActiveRange)
    nextChunk,         \* nextChunk_
    remaining,         \* remaining_
    dispatchToken,     \* dispatchToken_
    deterministicHash, \* deterministicHash_
    drv,               \* the driver thread: position and locals
    wpc,               \* each worker's position in workerLoop
    localToken,        \* each worker's localToken
    widx,              \* each worker's idx in processActiveRange
    wrun,              \* the invocation a worker is inside of
    arr,               \* the element arrays the range tasks write
    calls,             \* invocations of range tasks begun in this step
    ran,               \* serial subsystems / reductions run in this step
    iter,              \* bookkeeping of the current pacing iteration
    logger,            \* a Logger: level_, seq_, and what each sink of sinks_ received
    pool,              \* a WorkerPool (src/SimCore.hpp) and the threads using it
    outer              \* a SimCore of the sub-stepping versions and its run()

vars == <<settings, phases, timing, frame, terminate, now, startReal,
          nextFrameTarget, threadCount, shutdown, active, nextChunk,
          remaining, dispatchToken, deterministicHash, drv, wpc,
          localToken, widx, wrun, arr, calls, ran, iter, logger, pool,
          outer>>

legacyVars == <<pool, outer>>
cfgVars  == <<settings, phases, timing, threadCount, logger, legacyVars>>
clockVars == <<now, startReal, nextFrameTarget>>
dispVars == <<active, nextChunk, remaining, dispatchToken, shutdown>>
workVars == <<wpc, localToken, widx, wrun>>

\* the worker populations explored (settings.threads after repair)
ThreadChoices == {1, 2}
WorkerIds == 1..2
Workers == 1..threadCount

(* ------------------------- user callbacks ------------------------------ *)
\* a range task of the determinism test: every element of its own slice
\* [b, e) is updated once; nothing outside the slice is written
RangeTaskBody(a, b, e) ==
    [x \in DOMAIN a |-> IF b <= x /\ x < e THEN a[x] + 1 ELSE a[x]]

RECURSIVE Xor(_, _)
Xor(a, b) ==
    IF a = 0 THEN b
    ELSE IF b = 0 THEN a
    ELSE ((a + b) % 2) + 2 * Xor(a \div 2, b \div 2)

\* FNV-1a seed and multiplier of the determinism test, low 16 bits
FnvSeed == 8997
FnvPrime == 435
HashMod == 2^16

\* the reduction of the determinism test: FNV-1a over elements 0 .. n-1
RECURSIVE Fnv(_, _, _, _)
Fnv(h, a, x, n) ==
    IF x >= n THEN h
    ELSE Fnv((Xor(h, a[x] % HashMod) * FnvPrime) % HashMod, a, x + 1, n)

(* --------------------------- the phase walk ---------------------------- *)
Chunk == IF settings.chunkSize # 0 THEN settings.chunkSize ELSE 256
TotalChunks(count) == (count + Chunk - 1) \div Chunk

\* a parallel branch taken whatever the number of threads
ParallelPathAnyThreads(p) ==
    /\ phases[p].nTasks > 0
    /\ phases[p].elementCount > 0

\* the condition of the parallel branch of doOneStep
ParallelPath(p) ==
    /\ threadCount > 1
    /\ phases[p].nTasks > 0
    /\ phases[p].elementCount > 0

\* a budget test that lets one frame too many through
BudgetSpentLate == settings.maxFrames >= 0 /\ frame > settings.maxFrames
\* settings_.maxFrames >= 0 && frame_ >= settings_.maxFrames
BudgetSpent == settings.maxFrames >= 0 /\ frame >= settings.maxFrames

Pos(pc, p, k) == [pc |-> pc, ph |-> p, k |-> k]

RECURSIVE EnterPhase(_)
\* a phase walk that leaves out the reductions
EnterReductionsSkipped(p) == EnterPhase(p + 1)

\* reductions of phase p, then the next phase
EnterReductions(p) ==
    IF phases[p].nRed > 0 THEN Pos("reduce", p, 1) ELSE EnterPhase(p + 1)

\* range tasks of phase p: the dispatcher, or one call on the driver
EnterTasks(p) ==
    IF ParallelPath(p) THEN Pos("pubTask", p, 1)
    ELSE IF phases[p].nTasks > 0 THEN Pos("sertask", p, 1)
    ELSE EnterReductions(p)

\* for (auto& ph : phases_): skip disabled phases; past the last, ++frame_
EnterPhase(p) ==
    IF p > Len(phases) THEN Pos("incr", p, 0)
    ELSE IF ~phases[p].enabled THEN EnterPhase(p + 1)
    ELSE IF phases[p].nSerial > 0 THEN Pos("serial", p, 1)
    ELSE EnterTasks(p)

\* after range task k of phase p has completed on the parallel path
AfterRange(p, k) ==
    IF k < phases[p].nTasks THEN Pos("pubTask", p, k + 1)
    ELSE EnterReductions(p)

\* PROF_SCOPE(profiler_, "Phase:" + ph.name) of the enabled phases the
\* driver enters on its way from phase `from` to phase `to`: the guard of
\* the macro lives in the if statement alone, so the scope is recorded
\* where it is opened
PhaseScopes(count, from, to) ==
    [p \in DOMAIN count |->
        IF from < p /\ p <= to /\ phases[p].enabled
        THEN count[p] + 1 ELSE count[p]]

Goto(pos) ==
    [drv EXCEPT !.pc = pos.pc, !.ph = pos.ph, !.k = pos.k,
                !.prof.phase = PhaseScopes(@, drv.ph, pos.ph)]

ZeroRan == [p \in 1..Len(phases) |-> [ser |-> 0, red |-> 0]]

(* ------------------------------- Init ---------------------------------- *)
Phase(name, nSerial, nTasks, nRed, elementCount, enabled) ==
    [name |-> name, nSerial |-> nSerial, nTasks |-> nTasks, nRed |-> nRed,
     elementCount |-> elementCount, enabled |-> enabled]

(* ------------------------------ the Logger ----------------------------- *)
\* Logger::Level: Trace=0, Debug=1, Info=2, Warn=3, Error=4, None=5
Levels == 0..5
Debug == 1
Info == 2
\* LOG_DEFAULT_LEVEL
LOG_DEFAULT_LEVEL == 2
\* the log() calls explored, as <<level, format string>> (no arguments:
\* format() returns the string unchanged)
LogCalls == {<<l, "Shown">> : l \in Levels} \cup {<<Debug, "Hidden">>}

\* the messages handed to a RingBufferSink
Msgs == {"a", "b"}

\* no RingBufferSink made yet
NoRing == [cap |-> 0, buf |-> <<>>, head |-> 0, wrapped |-> FALSE,
           written |-> <<>>]

\* RingBufferSink(cap): cap_ = cap, buf_ empty, head_ = 0, wrapped_ = false;
\* written lists the messages write() has been called with
RingBufferSink(cap) == [NoRing EXCEPT !.cap = cap]

\* RingBufferSink::write: push_back while buf_.size() < cap_, else
\* overwrite buf_[head_] and advance head_ modulo cap_ (buf_ is indexed
\* from 0 in the source, from 1 here)
write(r, msg) ==
    IF Len(r.buf) < r.cap
    THEN [r EXCEPT !.buf = Append(@, msg)]
    ELSE [r EXCEPT !.buf[r.head + 1] = msg,
                   !.head = (r.head + 1) % r.cap,
                   !.wrapped = TRUE]

\* a snapshot that copies buf_ from its first slot whatever head_ is
snapshotFromZero(r) == r.buf
\* RingBufferSink::snapshot: buf_ itself before the first overwrite, else
\* buf_[(head_ + i) % size] for i = 0 .. size - 1
snapshot(r) ==
    IF ~r.wrapped THEN r.buf
    ELSE [i \in 1..Len(r.buf) |-> r.buf[((r.head + (i - 1)) % Len(r.buf)) + 1]]

\* Logger(lvl): level_ = lvl, seq_ = 0, no sinks.  sinks[i] is what the
\* i-th element of sinks_ has been handed by write(); hist is the list of
\* log() calls made, each with the level and the sink count it met, and
\* sets the number of setLevel() calls made.
NewLogger(lvl) ==
    [level |-> lvl, seq |-> 0, sinks |-> <<>>, hist |-> <<>>, sets |-> 0,
     ring |-> NoRing]

\* willLog(l) with the comparison strict
willLogStrict(l) == l > logger.level
\* willLog(l)
willLog(l) == l >= logger.level

\* writeRecord(l, msg): one Record, numbered by seq_.fetch_add(1), written to
\* every sink of sinks_ in order
writeRecord(l, msg) ==
    LET r == [level |-> l, msg |-> msg, seq |-> logger.seq] IN
    [logger EXCEPT !.seq = @ + 1,
                   !.sinks = [i \in DOMAIN @ |-> Append(@[i], r)]]

\* log(l, fmt) in a build with LOG_ENABLED
Log(l, msg) ==
    /\ Len(logger.hist) < MaxLogCalls
    /\ LET called == [l |-> l, msg |-> msg, level |-> logger.level,
                      sinks |-> Len(logger.sinks)]
           after == IF ~willLog(l) THEN logger ELSE writeRecord(l, msg)
       IN logger' = [after EXCEPT !.hist = Append(@, called)]
    /\ UNCHANGED <<legacyVars, settings, phases, timing, threadCount,
                   clockVars, dispVars,
                   workVars, frame, terminate, deterministicHash, drv, arr,
                   calls, ran, iter>>

\* setLevel(l)
SetLevel(l) ==
    /\ logger.sets < MaxSetLevels
    /\ logger' = [logger EXCEPT !.level = l, !.sets = @ + 1]
    /\ UNCHANGED <<legacyVars, settings, phases, timing, threadCount,
                   clockVars, dispVars,
                   workVars, frame, terminate, deterministicHash, drv, arr,
                   calls, ran, iter>>

\* addSink(s)
AddSink ==
    /\ Len(logger.sinks) < MaxSinks
    /\ logger' = [logger EXCEPT !.sinks = Append(@, <<>>)]
    /\ UNCHANGED <<legacyVars, settings, phases, timing, threadCount,
                   clockVars, dispVars,
                   workVars, frame, terminate, deterministicHash, drv, arr,
                   calls, ran, iter>>


\* std::make_shared<RingBufferSink>(cap)
MakeRingSink(cap) ==
    /\ logger.ring.cap = 0
    /\ logger' = [logger EXCEPT !.ring = RingBufferSink(cap)]
    /\ UNCHANGED <<legacyVars, settings, phases, timing, threadCount,
                   clockVars, dispVars,
                   workVars, frame, terminate, deterministicHash, drv, arr,
                   calls, ran, iter>>

\* one write(Record) on the ring sink
RingWrite(msg) ==
    /\ logger.ring.cap > 0
    /\ Len(logger.ring.written) < MaxWrites
    /\ logger' = [logger EXCEPT
                     !.ring = [write(@, msg) EXCEPT
                                  !.written = Append(@, msg)]]
    /\ UNCHANGED <<legacyVars, settings, phases, timing, threadCount,
                   clockVars, dispVars,
                   workVars, frame, terminate, deterministicHash, drv, arr,
                   calls, ran, iter>>

(* ------------------- WorkerPool (src/SimCore.hpp) ----------------------- *)
\* every variable but pool and outer
simCoreVars == <<settings, phases, timing, threadCount, logger, clockVars,
                 dispVars, workVars, frame, terminate, deterministicHash,
                 drv, arr, calls, ran, iter>>

PoolIds == 1..MaxPoolThreads
\* the invocations task_(i) told apart: the parallel_for call whose task
\* task_ wrapped when it was invoked, and the index
PoolRuns == (0..MaxCalls) \X (0..(MaxCount - 1))

\* no WorkerPool made yet.  n is threads_.size(); mpc the position of the
\* thread that owns the pool, mi and mt the index and the task of its own
\* runChunk; wpc, wi, wt the same for the workers; call numbers the
\* parallel_for calls made, counts lists their arguments, returned is the
\* number of calls that have returned; winc counts a worker's increments
\* of finished_ since it was last stored 0; runs counts the invocations
\* begun; notified is a notify_one on cvDone_ not yet consumed by the
\* blocked owner
NoPool ==
    [n |-> 0, mainHelps |-> FALSE, hasWork |-> FALSE, stop |-> FALSE,
     nextIndex |-> 0, total |-> 0, finished |-> 0, task |-> 0,
     mpc |-> "none", mi |-> 0, mt |-> 0, call |-> 0, counts |-> <<>>,
     returned |-> 0, notified |-> FALSE,
     wpc |-> [w \in PoolIds |-> "none"], wi |-> [w \in PoolIds |-> 0],
     wt |-> [w \in PoolIds |-> 0], winc |-> [w \in PoolIds |-> 0],
     runs |-> [r \in PoolRuns |-> 0]]

\* the owner holds m_ inside the first block of parallel_for
PoolLocked == pool.mpc \in {"pubTotal", "pubFinished", "pubTask"}

\* WorkerPool(nThreads, mainHelps): nThreads == 0 becomes 1, the workers
\* start at the top of workerLoop
WorkerPool(nThreads, mainHelps) ==
    /\ pool.mpc = "none"
    /\ LET n == IF nThreads = 0 THEN 1 ELSE nThreads IN
       pool' = [pool EXCEPT !.n = n, !.mainHelps = mainHelps,
                            !.mpc = "idle",
                            !.wpc = [w \in PoolIds |->
                                        IF w <= n THEN "wait" ELSE "none"]]
    /\ UNCHANGED <<simCoreVars, outer>>

\* parallel_for(count, task): if (count == 0) return; else lock m_ and
\* nextIndex_.store(0)
parallel_for(count) ==
    /\ pool.mpc = "idle"
    /\ pool.call < MaxCalls
    /\ IF count = 0
       THEN pool' = [pool EXCEPT !.call = @ + 1, !.returned = @ + 1,
                                 !.counts = Append(@, count)]
       ELSE pool' = [pool EXCEPT !.call = @ + 1,
                                 !.counts = Append(@, count),
                                 !.nextIndex = 0, !.mpc = "pubTotal"]
    /\ UNCHANGED <<simCoreVars, outer>>

\* total_ = count
PoolStoreTotal ==
    /\ pool.mpc = "pubTotal"
    /\ pool' = [pool EXCEPT !.total = pool.counts[pool.call],
                            !.mpc = "pubFinished"]
    /\ UNCHANGED <<simCoreVars, outer>>

\* finished_.store(0)
PoolStoreFinished ==
    /\ pool.mpc = "pubFinished"
    /\ pool' = [pool EXCEPT !.finished = 0,
                            !.winc = [w \in PoolIds |-> 0],
                            !.mpc = "pubTask"]
    /\ UNCHANGED <<simCoreVars, outer>>

\* task_ = [&task]...; hasWork_ = true; unlock; cvStart_.notify_all();
\* if (mainHelps_) runChunk()
PoolStoreTask ==
    /\ pool.mpc = "pubTask"
    /\ pool' = [pool EXCEPT !.task = pool.call, !.hasWork = TRUE,
                            !.mpc = IF pool.mainHelps THEN "claim"
                                    ELSE "check"]
    /\ UNCHANGED <<simCoreVars, outer>>

\* nextIndex_.fetch_add(1); values at or above MaxCount are not told apart
PoolFetchAdd(v) == Min(v + 1, MaxCount)

\* runChunk on the owner: i = nextIndex_.fetch_add(1)
PoolMainClaim ==
    /\ pool.mpc = "claim"
    /\ pool' = [pool EXCEPT !.mi = pool.nextIndex,
                            !.nextIndex = PoolFetchAdd(@),
                            !.mpc = "test"]
    /\ UNCHANGED <<simCoreVars, outer>>

\* if (i >= total_) break; task_(i) is entered
PoolMainTest ==
    /\ pool.mpc = "test"
    /\ IF pool.mi >= pool.total
       THEN pool' = [pool EXCEPT !.mpc = "check"]
       ELSE pool' = [pool EXCEPT !.mpc = "exec", !.mt = pool.task,
                                 !.runs[<<pool.task, pool.mi>>] = @ + 1]
    /\ UNCHANGED <<simCoreVars, outer>>

\* task_(i) returns
PoolMainExec ==
    /\ pool.mpc = "exec"
    /\ pool' = [pool EXCEPT !.mpc = "claim", !.mt = 0]
    /\ UNCHANGED <<simCoreVars, outer>>

\* cvDone_.wait(lk, pred): the predicate finished_ == threads_.size() is
\* tested under m_; true: hasWork_ = false and parallel_for returns;
\* false: the owner blocks on cvDone_
PoolMainCheck ==
    /\ pool.mpc = "check"
    /\ IF pool.finished = pool.n
       THEN pool' = [pool EXCEPT !.hasWork = FALSE, !.mpc = "idle",
                                 !.returned = @ + 1]
       ELSE pool' = [pool EXCEPT !.mpc = "blocked", !.notified = FALSE]
    /\ UNCHANGED <<simCoreVars, outer>>

\* the owner is woken by the notify_one of a worker and tests again
PoolMainWake ==
    /\ pool.mpc = "blocked"
    /\ pool.notified
    /\ pool' = [pool EXCEPT !.mpc = "check", !.notified = FALSE]
    /\ UNCHANGED <<simCoreVars, outer>>

\* a condition variable may wake its waiter without a notify
PoolMainSpuriousWake ==
    /\ pool.mpc = "blocked"
    /\ ~pool.notified
    /\ pool' = [pool EXCEPT !.mpc = "check"]
    /\ UNCHANGED <<simCoreVars, outer>>

\* workerLoop: cvStart_.wait(lk, hasWork_ || stop_); if (stop_) return
PoolWorkerWait(w) ==
    /\ pool.wpc[w] = "wait"
    /\ ~PoolLocked
    /\ pool.hasWork \/ pool.stop
    /\ pool' = [pool EXCEPT !.wpc[w] = IF pool.stop THEN "exit" ELSE "claim"]
    /\ UNCHANGED <<simCoreVars, outer>>

\* runChunk on a worker: i = nextIndex_.fetch_add(1)
PoolWorkerClaim(w) ==
    /\ pool.wpc[w] = "claim"
    /\ pool' = [pool EXCEPT !.wi[w] = pool.nextIndex,
                            !.nextIndex = PoolFetchAdd(@),
                            !.wpc[w] = "test"]
    /\ UNCHANGED <<simCoreVars, outer>>

\* if (i >= total_) break; task_(i) is entered: total_ and task_ are read
\* as they are now, without m_
PoolWorkerTest(w) ==
    /\ pool.wpc[w] = "test"
    /\ IF pool.wi[w] >= pool.total
       THEN pool' = [pool EXCEPT !.wpc[w] = "done"]
       ELSE pool' = [pool EXCEPT !.wpc[w] = "exec", !.wt[w] = pool.task,
                                 !.runs[<<pool.task, pool.wi[w]>>] = @ + 1]
    /\ UNCHANGED <<simCoreVars, outer>>

\* task_(i) returns
PoolWorkerExec(w) ==
    /\ pool.wpc[w] = "exec"
    /\ pool' = [pool EXCEPT !.wpc[w] = "claim", !.wt[w] = 0]
    /\ UNCHANGED <<simCoreVars, outer>>

\* if (finished_.fetch_add(1) + 1 == threads_.size()) the notify follows;
\* values of finished_ at or above FinishedCap are not told apart
PoolWorkerDone(w) ==
    /\ pool.wpc[w] = "done"
    /\ pool' = [pool EXCEPT !.finished = Min(@ + 1, FinishedCap),
                            !.winc[w] = Min(@ + 1, 2),
                            !.wpc[w] = IF pool.finished + 1 = pool.n
                                       THEN "notify" ELSE "wait"]
    /\ UNCHANGED <<simCoreVars, outer>>

\* lock m_; cvDone_.notify_one(): reaches the owner only if it is blocked
PoolWorkerNotify(w) ==
    /\ pool.wpc[w] = "notify"
    /\ ~PoolLocked
    /\ pool' = [pool EXCEPT !.wpc[w] = "wait",
                            !.notified = (pool.mpc = "blocked")]
    /\ UNCHANGED <<simCoreVars, outer>>

\* ~WorkerPool(): stop_ = true, hasWork_ = true under m_, notify_all
PoolDestroy ==
    /\ pool.mpc = "idle"
    /\ pool' = [pool EXCEPT !.stop = TRUE, !.hasWork = TRUE, !.mpc = "join"]
    /\ UNCHANGED <<simCoreVars, outer>>

\* for (auto& t : threads_) t.join()
PoolJoin ==
    /\ pool.mpc = "join"
    /\ \A w \in 1..pool.n : pool.wpc[w] = "exit"
    /\ pool' = [pool EXCEPT !.mpc = "destroyed"]
    /\ UNCHANGED <<simCoreVars, outer>>

PoolWorker(w) ==
    \/ PoolWorkerWait(w)
    \/ PoolWorkerClaim(w)
    \/ PoolWorkerTest(w)
    \/ PoolWorkerExec(w)
    \/ PoolWorkerDone(w)
    \/ PoolWorkerNotify(w)

PoolMain ==
    \/ PoolStoreTotal \/ PoolStoreFinished \/ PoolStoreTask
    \/ PoolMainClaim \/ PoolMainTest \/ PoolMainExec
    \/ PoolMainCheck \/ PoolMainWake
    \/ PoolJoin

(* ---- the sub-stepping SimCore (src/SimCore.hpp, src/SimCore_old.hpp) ---- *)
\* no SimCore of these versions made yet.  pc is the position of run(), i
\* the sub-step counter of the outer step, extra the catch-up steps still
\* to make and inCatch whether the outer step was called by the burst
NoOuter ==
    [made |-> FALSE, hz |-> 1, maxFrames |-> -1, adaptive |-> FALSE,
     maxCatchUp |-> 0, subSteps |-> 1, frame |-> 0, terminate |-> FALSE,
     pc |-> "none", i |-> 0, extra |-> 0, inCatch |-> FALSE]

\* recalcTimingFromHz: subSteps_ = hz > 1000 ? ceil(hz / 1000) : 1
recalcTimingFromHz(hz) == IF hz > 1000 THEN CeilDiv(hz, 1000) ELSE 1

\* SimCore(cfg): applySettings with its repairs, then recalcTimingFromHz
OuterSimCore(hz, maxFrames, adaptive, maxCatchUp) ==
    /\ outer.pc = "none"
    /\ LET h == IF hz <= 0 THEN 1 ELSE hz IN
       outer' = [NoOuter EXCEPT
                    !.made = TRUE, !.hz = h,
                    !.maxFrames = IF maxFrames < -1 THEN -1 ELSE maxFrames,
                    !.adaptive = adaptive,
                    !.maxCatchUp = IF maxCatchUp < 0 THEN 0 ELSE maxCatchUp,
                    !.subSteps = recalcTimingFromHz(h),
                    !.pc = "idle"]
    /\ UNCHANGED <<simCoreVars, pool>>

\* run() is called
OuterRun ==
    /\ outer.pc = "idle"
    /\ outer' = [outer EXCEPT !.pc = "top", !.inCatch = FALSE]
    /\ UNCHANGED <<simCoreVars, pool>>

\* advanceSimulation / outerStep / processFrameStep, its first test: return
\* false on terminate_ or frame_ >= maxFrames; the burst ignores the result
OuterStepTop ==
    /\ outer.pc = "top"
    /\ IF outer.terminate
          \/ (outer.maxFrames >= 0 /\ outer.frame >= outer.maxFrames)
       THEN IF outer.inCatch
            THEN outer' = [outer EXCEPT !.pc = "catch", !.extra = @ - 1]
            ELSE outer' = [outer EXCEPT !.pc = "done"]
       ELSE outer' = [outer EXCEPT !.pc = "sub", !.i = 0]
    /\ UNCHANGED <<simCoreVars, pool>>

\* one round of for (i < subSteps_): the subsystems run, one of them may
\* call requestExit(), ++frame_
OuterSubStep ==
    /\ outer.pc = "sub"
    /\ outer.i < outer.subSteps
    /\ outer.frame < OuterFrameCap
    /\ \E ex \in BOOLEAN :
          outer' = [outer EXCEPT !.frame = @ + 1, !.i = @ + 1,
                                 !.terminate = @ \/ ex]
    /\ UNCHANGED <<simCoreVars, pool>>

\* the loop is over: return true
OuterStepEnd ==
    /\ outer.pc = "sub"
    /\ outer.i >= outer.subSteps
    /\ IF outer.inCatch
       THEN outer' = [outer EXCEPT !.pc = "catch", !.extra = @ - 1]
       ELSE outer' = [outer EXCEPT !.pc = "pace"]
    /\ UNCHANGED <<simCoreVars, pool>>

\* the wait for nextOuter, which ends late whole outer periods late; if
\* (adaptive) lagOuters = clamp(int(lag / outerDt), 0, maxCatchUp)
OuterPace ==
    /\ outer.pc = "pace"
    /\ IF outer.adaptive
       THEN \E late \in 0..OuterMaxLate :
               outer' = [outer EXCEPT
                            !.pc = "catch", !.inCatch = TRUE,
                            !.extra = Max(0, Min(late, outer.maxCatchUp))]
       ELSE outer' = [outer EXCEPT !.pc = "top"]
    /\ UNCHANGED <<simCoreVars, pool>>

\* for (i < lagOuters) the outer step is called once more; after the burst
\* the while condition calls it
OuterCatch ==
    /\ outer.pc = "catch"
    /\ IF outer.extra > 0
       THEN outer' = [outer EXCEPT !.pc = "top"]
       ELSE outer' = [outer EXCEPT !.pc = "top", !.inCatch = FALSE]
    /\ UNCHANGED <<simCoreVars, pool>>

\* the state after SimCore(s) and the registration calls; values of
\* nextChunk_ at or above cap are not told apart
ConstructedCap(s, reg, cap) ==
    LET st == applySettings(s) IN
    /\ settings = st
    /\ phases = reg
    /\ timing = recalcTiming(st.hz)
    /\ frame = 0
    /\ terminate = FALSE
    /\ now = 0
    /\ startReal = 0
    /\ nextFrameTarget = 0
    /\ threadCount = st.threads
    /\ shutdown = FALSE
    /\ active = [task |-> NoTask, totalChunks |-> 0, elementCount |-> 0,
                 chunkSize |-> 0, frame |-> 0]
    /\ nextChunk = 0
    /\ remaining = 0
    /\ dispatchToken = 0
    /\ deterministicHash = 0
    /\ drv = [pc |-> "idle", ph |-> 0, k |-> 0, idx |-> 0,
              inCatchUp |-> FALSE, extra |-> 0, i |-> 0, run |-> NoRun,
              after |-> "idle", lastDrift |-> 0,
              prof |-> [frame |-> 0, phase |-> [p \in 1..Len(reg) |-> 0]]]
    /\ wpc = [w \in WorkerIds |-> IF w <= st.threads THEN "start" ELSE "none"]
    /\ localToken = [w \in WorkerIds |-> 0]
    /\ widx = [w \in WorkerIds |-> 0]
    /\ wrun = [w \in WorkerIds |-> NoRun]
    /\ arr = [p \in 1..Len(reg) |-> [x \in 0..(MaxElems - 1) |-> 0]]
    /\ calls = EmptyBag
    /\ ran = [p \in 1..Len(reg) |-> [ser |-> 0, red |-> 0]]
    /\ iter = [steps |-> 0, behind |-> 0, exitAt |-> -2, given |-> s,
               applies |-> 0, tokenAt |-> 0, failed |-> -1, cap |-> cap,
               started |-> 0]
    /\ logger = NewLogger(LOG_DEFAULT_LEVEL)
    /\ pool = NoPool
    /\ outer = NoOuter

Constructed(s, reg) == ConstructedCap(s, reg, NextCap)

(* ------------------------ the pacing loop (driver) --------------------- *)
\* requestExit() by the owner of the SimCore before run()
RequestExit ==
    /\ drv.pc = "idle"
    /\ ~terminate
    /\ terminate' = TRUE
    /\ iter' = [iter EXCEPT !.exitAt = -1]
    /\ UNCHANGED <<cfgVars, clockVars, dispVars, workVars, frame,
                   deterministicHash, drv, arr, calls, ran>>

\* run(): startReal_ = now; nextFrameTarget_ = startReal_; while (advance())
Run ==
    /\ drv.pc = "idle"
    /\ startReal' = now
    /\ nextFrameTarget' = now
    /\ drv' = [drv EXCEPT !.pc = "advance"]
    /\ iter' = [iter EXCEPT !.started = 0]
    /\ UNCHANGED <<cfgVars, now, dispVars, workVars, frame, terminate,
                   deterministicHash, arr, calls, ran>>

\* a step that opens no "Frame" scope
BeginStepNoFrameScope(catchUp) ==
    LET pos == EnterPhase(1) IN
    [drv EXCEPT !.pc = pos.pc, !.ph = pos.ph, !.k = pos.k,
                !.inCatchUp = catchUp,
                !.prof.phase = PhaseScopes(@, 0, pos.ph)]

\* the entry of doOneStep: PROF_SCOPE(profiler_, "Frame"), then the driver
\* walks to the first callback
BeginStep(catchUp) ==
    LET pos == EnterPhase(1) IN
    [drv EXCEPT !.pc = pos.pc, !.ph = pos.ph, !.k = pos.k,
                !.inCatchUp = catchUp,
                !.prof.frame = @ + 1,
                !.prof.phase = PhaseScopes(@, 0, pos.ph)]

\* advance(), up to the call of doOneStep
Advance ==
    /\ drv.pc = "advance"
    /\ (settings.maxFrames < 0 /\ ~terminate) => frame < FrameCap
    /\ IF terminate \/ BudgetSpent
       THEN /\ drv' = [drv EXCEPT !.pc = "done"]
            /\ UNCHANGED <<calls, ran, iter>>
       ELSE /\ drv' = BeginStep(FALSE)
            /\ calls' = EmptyBag
            /\ ran' = ZeroRan
            /\ iter' = [iter EXCEPT !.steps = 1, !.behind = 0,
                                    !.started = @ + 1]
    /\ UNCHANGED <<cfgVars, clockVars, dispVars, workVars, frame, terminate,
                   deterministicHash, arr>>

\* sub(frame_, dtMicro_): one serial subsystem of the phase, on the driver
SerialSubsystem ==
    /\ drv.pc = "serial"
    /\ ran' = [ran EXCEPT ![drv.ph].ser = @ + 1]
    /\ drv' = Goto(IF drv.k < phases[drv.ph].nSerial
                   THEN Pos("serial", drv.ph, drv.k + 1)
                   ELSE EnterTasks(drv.ph))
    /\ UNCHANGED <<cfgVars, clockVars, dispVars, workVars, frame, terminate,
                   deterministicHash, arr, calls, iter>>

\* a serial subsystem that calls requestExit(), as the one of main.cpp does
SerialSubsystemExit ==
    /\ drv.pc = "serial"
    /\ ~terminate
    /\ terminate' = TRUE
    /\ iter' = [iter EXCEPT !.exitAt = frame]
    /\ ran' = [ran EXCEPT ![drv.ph].ser = @ + 1]
    /\ drv' = Goto(IF drv.k < phases[drv.ph].nSerial
                   THEN Pos("serial", drv.ph, drv.k + 1)
                   ELSE EnterTasks(drv.ph))
    /\ UNCHANGED <<cfgVars, clockVars, dispVars, workVars, frame,
                   deterministicHash, arr, calls>>

\* the else branch of doOneStep: rt(0, ph.elementCount, frame_, dtMicro_)
SerialRangeTask ==
    /\ drv.pc = "sertask"
    /\ LET p == drv.ph
           r == [task |-> <<p, drv.k>>, b |-> 0,
                 e |-> phases[p].elementCount, f |-> frame]
       IN  /\ calls' = calls (+) SetToBag({r})
           /\ arr' = [arr EXCEPT ![p] = RangeTaskBody(@, r.b, r.e)]
           /\ drv' = Goto(IF drv.k < phases[p].nTasks
                          THEN Pos("sertask", p, drv.k + 1)
                          ELSE EnterReductions(p))
    /\ UNCHANGED <<cfgVars, clockVars, dispVars, workVars, frame, terminate,
                   deterministicHash, ran, iter>>

\* red(frame_, dtMicro_): the reduction of the determinism test hashes
\* the array at the last frame of the budget
Reduction ==
    /\ drv.pc = "reduce"
    /\ LET p == drv.ph IN
       /\ deterministicHash' =
             IF frame = settings.maxFrames - 1
             THEN Fnv(FnvSeed, arr[p], 0, phases[p].elementCount)
             ELSE deterministicHash
       /\ ran' = [ran EXCEPT ![p].red = @ + 1]
       /\ drv' = Goto(IF drv.k < phases[p].nRed
                      THEN Pos("reduce", p, drv.k + 1)
                      ELSE EnterPhase(p + 1))
    /\ UNCHANGED <<cfgVars, clockVars, dispVars, workVars, frame, terminate,
                   arr, calls, iter>>

\* an end of step that moves the deadline after catch-up steps as well
EndStepAlways ==
    /\ drv.pc = "incr"
    /\ frame' = frame + 1
    /\ drv' = IF drv.inCatchUp
              THEN [drv EXCEPT !.pc = "catchup", !.i = @ + 1]
              ELSE [drv EXCEPT !.pc = "wait"]
    /\ nextFrameTarget' = nextFrameTarget + timing.dtMicro
    /\ UNCHANGED <<cfgVars, now, startReal, dispVars, workVars, terminate,
                   deterministicHash, arr, calls, ran, iter>>

\* the end of doOneStep, ++frame_, and the return to its caller: after the
\* regular step advance() moves the deadline by dtMicro_ and waits; after
\* a catch-up step the for loop goes on
EndStep ==
    /\ drv.pc = "incr"
    /\ frame' = frame + 1
    /\ IF drv.inCatchUp
       THEN /\ drv' = [drv EXCEPT !.pc = "catchup", !.i = @ + 1]
            /\ UNCHANGED nextFrameTarget
       ELSE /\ drv' = [drv EXCEPT !.pc = "wait"]
            /\ nextFrameTarget' = nextFrameTarget + timing.dtMicro
    /\ UNCHANGED <<cfgVars, now, startReal, dispVars, workVars, terminate,
                   deterministicHash, arr, calls, ran, iter>>

\* a wait that is left without looking at the clock
WaitDeadlineEarly ==
    /\ drv.pc = "wait"
    /\ drv' = [drv EXCEPT !.pc = "adapt"]
    /\ UNCHANGED <<cfgVars, clockVars, dispVars, workVars,
                   frame, terminate, deterministicHash, arr, calls, ran, iter>>

\* the sleep/spin loop of advance(): it is left at the first reading of
\* the clock that is not before nextFrameTarget_
WaitDeadline ==
    /\ drv.pc = "wait"
    /\ now' = Max(now, nextFrameTarget)
    /\ drv' = [drv EXCEPT !.pc = "adapt"]
    /\ UNCHANGED <<cfgVars, startReal, nextFrameTarget, dispVars, workVars,
                   frame, terminate, deterministicHash, arr, calls, ran, iter>>

\* the same loop when the step or the scheduler made the driver late
WaitDeadlineLate ==
    /\ drv.pc = "wait"
    /\ \E j \in 1..MaxLate :
          now' = Max(now, nextFrameTarget) + j * (timing.dtMicro \div 2)
    /\ drv' = [drv EXCEPT !.pc = "adapt"]
    /\ UNCHANGED <<cfgVars, startReal, nextFrameTarget, dispVars, workVars,
                   frame, terminate, deterministicHash, arr, calls, ran, iter>>

\* the burst length without the clamp to maxCatchUp
CatchUpCountUnclamped(behind) ==
    IF behind > 0 THEN behind \div timing.dtMicro ELSE 0

\* extra = int(behind / dt), clamped from above by maxCatchUp
CatchUpCount(behind) ==
    IF behind > 0
    THEN Min(behind \div timing.dtMicro, settings.maxCatchUp)
    ELSE 0

\* a drift observation that is made at every frame, whatever the stride
logDriftAlways == frame * timing.dtMicro - (now - startReal)

\* logDrift(): lastDriftMs_ after the call (here in microseconds): left
\* alone when driftLogInterval <= 0 or frame_ is no multiple of it, else
\* simT - realT
logDrift ==
    IF settings.driftLogInterval <= 0 THEN drv.lastDrift
    ELSE IF frame % settings.driftLogInterval # 0 THEN drv.lastDrift
    ELSE frame * timing.dtMicro - (now - startReal)

\* logDrift(), in either branch; if (settings_.adaptive) { behind = now -
\* nextFrameTarget_; ... }
Adapt ==
    /\ drv.pc = "adapt"
    /\ LET behind == now - nextFrameTarget IN
       IF settings.adaptive
       THEN /\ drv' = [drv EXCEPT !.pc = "catchup", !.i = 0,
                                  !.extra = CatchUpCount(behind),
                                  !.lastDrift = logDrift]
            /\ iter' = [iter EXCEPT !.behind = behind]
       ELSE /\ drv' = [drv EXCEPT !.pc = "ret", !.lastDrift = logDrift]
            /\ UNCHANGED iter
    /\ UNCHANGED <<cfgVars, clockVars, dispVars, workVars, frame, terminate,
                   deterministicHash, arr, calls, ran>>

\* for (i = 0; i < extra; i++) { if (budget spent) break; doOneStep(); }
CatchUp ==
    /\ drv.pc = "catchup"
    /\ (settings.maxFrames < 0 /\ drv.i < drv.extra) => frame < FrameCap
    /\ IF drv.i < drv.extra /\ ~BudgetSpent
       THEN /\ drv' = BeginStep(TRUE)
            /\ calls' = EmptyBag
            /\ ran' = ZeroRan
            /\ iter' = [iter EXCEPT !.steps = @ + 1]
       ELSE /\ drv' = [drv EXCEPT !.pc = "ret"]
            /\ UNCHANGED <<calls, ran, iter>>
    /\ UNCHANGED <<cfgVars, clockVars, dispVars, workVars, frame, terminate,
                   deterministicHash, arr>>

\* return !(maxFrames >= 0 && frame_ >= maxFrames), and the while of run()
Return ==
    /\ drv.pc = "ret"
    /\ drv' = [drv EXCEPT !.pc = IF BudgetSpent THEN "done" ELSE "advance"]
    /\ UNCHANGED <<cfgVars, clockVars, dispVars, workVars, frame, terminate,
                   deterministicHash, arr, calls, ran, iter>>

(* ------------------- the range dispatcher (driver) --------------------- *)
\* fetch_add(1) on nextChunk_
FetchAdd(v) == Min(v + 1, iter.cap)
FetchSub(v) == (v - 1) % SizeMod

\* the slice of chunk idx: begin = idx * chunk, end = min(begin + chunk, count)
ChunkBegin(idx, chunk) == idx * chunk
ChunkEnd(idx, chunk, count) == Min(idx * chunk + chunk, count)

\* the effect of one invocation of range task r.task on its slice
Invoke(r) ==
    IF r.task[1] \in DOMAIN arr
    THEN [arr EXCEPT ![r.task[1]] = RangeTaskBody(@, r.b, r.e)]
    ELSE arr

\* active_.task = &rt
PubTask ==
    /\ drv.pc = "pubTask"
    /\ active' = [active EXCEPT !.task = <<drv.ph, drv.k>>]
    /\ drv' = [drv EXCEPT !.pc = "pubTotal"]
    /\ UNCHANGED <<cfgVars, clockVars, nextChunk, remaining, dispatchToken,
                   shutdown, workVars, frame, terminate, deterministicHash,
                   arr, calls, ran, iter>>

\* active_.totalChunks = totalChunks
PubTotal ==
    /\ drv.pc = "pubTotal"
    /\ active' = [active EXCEPT
                    !.totalChunks = TotalChunks(phases[drv.ph].elementCount)]
    /\ drv' = [drv EXCEPT !.pc = "pubCount"]
    /\ UNCHANGED <<cfgVars, clockVars, nextChunk, remaining, dispatchToken,
                   shutdown, workVars, frame, terminate, deterministicHash,
                   arr, calls, ran, iter>>

\* active_.elementCount = count; active_.chunkSize = chunk
PubCount ==
    /\ drv.pc = "pubCount"
    /\ active' = [active EXCEPT !.elementCount = phases[drv.ph].elementCount,
                                !.chunkSize = Chunk]
    /\ drv' = [drv EXCEPT !.pc = "pubFrame"]
    /\ UNCHANGED <<cfgVars, clockVars, nextChunk, remaining, dispatchToken,
                   shutdown, workVars, frame, terminate, deterministicHash,
                   arr, calls, ran, iter>>

\* active_.frame = frame_; active_.dt = dtMicro_
PubFrame ==
    /\ drv.pc = "pubFrame"
    /\ active' = [active EXCEPT !.frame = frame]
    /\ drv' = [drv EXCEPT !.pc = "pubNext"]
    /\ UNCHANGED <<cfgVars, clockVars, nextChunk, remaining, dispatchToken,
                   shutdown, workVars, frame, terminate, deterministicHash,
                   arr, calls, ran, iter>>

\* nextChunk_.store(0)
PubNext ==
    /\ drv.pc = "pubNext"
    /\ nextChunk' = 0
    /\ drv' = [drv EXCEPT !.pc = "pubRem"]
    /\ UNCHANGED <<cfgVars, clockVars, active, remaining, dispatchToken,
                   shutdown, workVars, frame, terminate, deterministicHash,
                   arr, calls, ran, iter>>

\* remaining_.store(totalChunks)
PubRemaining ==
    /\ drv.pc = "pubRem"
    /\ remaining' = TotalChunks(phases[drv.ph].elementCount)
    /\ drv' = [drv EXCEPT !.pc = "pubTok"]
    /\ UNCHANGED <<cfgVars, clockVars, active, nextChunk, dispatchToken,
                   shutdown, workVars, frame, terminate, deterministicHash,
                   arr, calls, ran, iter>>

\* dispatchToken_.fetch_add(1)
PubToken ==
    /\ drv.pc = "pubTok"
    /\ dispatchToken' = dispatchToken + 1
    /\ drv' = [drv EXCEPT !.pc = "dLoad"]
    /\ UNCHANGED <<cfgVars, clockVars, active, nextChunk, remaining,
                   shutdown, workVars, frame, terminate, deterministicHash,
                   arr, calls, ran, iter>>

\* while (remaining_.load() > 0)
DriverLoad ==
    /\ drv.pc = "dLoad"
    /\ drv' = IF remaining > 0
              THEN [drv EXCEPT !.pc = "dClaim"]
              ELSE Goto(AfterRange(drv.ph, drv.k))
    /\ UNCHANGED <<cfgVars, clockVars, dispVars, workVars, frame, terminate,
                   deterministicHash, arr, calls, ran, iter>>

\* idx = nextChunk_.fetch_add(1); past the end: yield and continue;
\* otherwise the driver enters rt(begin, end, frame_, dtMicro_); idx is a
\* local of the loop body and is not kept
DriverClaim ==
    /\ drv.pc = "dClaim"
    /\ nextChunk' = FetchAdd(nextChunk)
    /\ LET count == phases[drv.ph].elementCount
           r == [task |-> <<drv.ph, drv.k>>,
                 b |-> ChunkBegin(nextChunk, Chunk),
                 e |-> ChunkEnd(nextChunk, Chunk, count), f |-> frame]
       IN  IF nextChunk >= TotalChunks(count)
           THEN /\ drv' = [drv EXCEPT !.pc = "dLoad"]
                /\ UNCHANGED calls
           ELSE /\ drv' = [drv EXCEPT !.pc = "dFin", !.run = r]
                /\ calls' = calls (+) SetToBag({r})
    /\ UNCHANGED <<cfgVars, clockVars, active, remaining, dispatchToken,
                   shutdown, workVars, frame, terminate, deterministicHash,
                   arr, ran, iter>>

\* rt returns; if (remaining_.fetch_sub(1) == 1) break
DriverFinish ==
    /\ drv.pc = "dFin"
    /\ arr' = Invoke(drv.run)
    /\ remaining' = FetchSub(remaining)
    /\ drv' = IF remaining = 1
              THEN [Goto(AfterRange(drv.ph, drv.k)) EXCEPT !.run = NoRun]
              ELSE [drv EXCEPT !.pc = "dLoad", !.run = NoRun]
    /\ UNCHANGED <<cfgVars, clockVars, active, nextChunk, dispatchToken,
                   shutdown, workVars, frame, terminate, deterministicHash,
                   calls, ran, iter>>

(* ------------------------------ workers -------------------------------- *)
\* workerLoop: localToken = dispatchToken_.load()
WorkerStart(w) ==
    /\ wpc[w] = "start"
    /\ localToken' = [localToken EXCEPT ![w] = dispatchToken]
    /\ wpc' = [wpc EXCEPT ![w] = "wait"]
    /\ UNCHANGED <<cfgVars, clockVars, dispVars, widx, wrun, frame, terminate,
                   deterministicHash, drv, arr, calls, ran, iter>>

\* a worker that enters the consumer loop without adopting the token
WorkerWakeStale(w) ==
    /\ wpc[w] = "wait"
    /\ localToken[w] # dispatchToken \/ shutdown
    /\ wpc' = [wpc EXCEPT ![w] = IF shutdown THEN "exit" ELSE "claim"]
    /\ UNCHANGED localToken
    /\ UNCHANGED <<cfgVars, clockVars, dispVars, widx, wrun,
                   frame, terminate, deterministicHash, drv, arr, calls, ran,
                   iter>>

\* a worker whose yield loop and loop exit ignore shutdown_
WorkerWakeNoShutdown(w) ==
    /\ wpc[w] = "wait"
    /\ localToken[w] # dispatchToken
    /\ wpc' = [wpc EXCEPT ![w] = "claim"]
    /\ localToken' = [localToken EXCEPT ![w] = dispatchToken]
    /\ UNCHANGED <<cfgVars, clockVars, dispVars, widx, wrun,
                   frame, terminate, deterministicHash, drv, arr, calls, ran,
                   iter>>

\* the yield loop is left on a new token or on shutdown; if (shutdown)
\* break; localToken = dispatchToken_.load(); processActiveRange().  The
\* loads are of values that only grow, so the later load decides
WorkerWake(w) ==
    /\ wpc[w] = "wait"
    /\ localToken[w] # dispatchToken \/ shutdown
    /\ IF shutdown
       THEN /\ wpc' = [wpc EXCEPT ![w] = "exit"]
            /\ UNCHANGED localToken
       ELSE /\ wpc' = [wpc EXCEPT ![w] = "claim"]
            /\ localToken' = [localToken EXCEPT ![w] = dispatchToken]
    /\ UNCHANGED <<cfgVars, clockVars, dispVars, widx, wrun,
                   frame, terminate, deterministicHash, drv, arr, calls, ran,
                   iter>>

\* idx = nextChunk_.fetch_add(1)
WorkerClaim(w) ==
    /\ wpc[w] = "claim"
    /\ widx' = [widx EXCEPT ![w] = nextChunk]
    /\ nextChunk' = FetchAdd(nextChunk)
    /\ wpc' = [wpc EXCEPT ![w] = "cmp"]
    /\ UNCHANGED <<cfgVars, clockVars, active, remaining, dispatchToken,
                   shutdown, localToken, wrun, frame, terminate,
                   deterministicHash, drv, arr, calls, ran, iter>>

\* if (idx >= active_.totalChunks) break; idx is a local of the loop body
WorkerCompare(w) ==
    /\ wpc[w] = "cmp"
    /\ IF widx[w] >= active.totalChunks
       THEN /\ wpc' = [wpc EXCEPT ![w] = "wait"]
            /\ widx' = [widx EXCEPT ![w] = 0]
       ELSE /\ wpc' = [wpc EXCEPT ![w] = "exec"]
            /\ UNCHANGED widx
    /\ UNCHANGED <<cfgVars, clockVars, dispVars, localToken, wrun,
                   frame, terminate, deterministicHash, drv, arr, calls, ran,
                   iter>>

\* begin, end from active_; the worker enters (*active_.task)(begin, end,
\* active_.frame, active_.dt)
WorkerExec(w) ==
    /\ wpc[w] = "exec"
    /\ LET r == [task |-> active.task,
                 b |-> ChunkBegin(widx[w], active.chunkSize),
                 e |-> ChunkEnd(widx[w], active.chunkSize, active.elementCount),
                 f |-> active.frame]
       IN  /\ wrun' = [wrun EXCEPT ![w] = r]
           /\ calls' = calls (+) SetToBag({r})
    /\ widx' = [widx EXCEPT ![w] = 0]
    /\ wpc' = [wpc EXCEPT ![w] = "fin"]
    /\ UNCHANGED <<cfgVars, clockVars, dispVars, localToken, frame,
                   terminate, deterministicHash, drv, arr, ran, iter>>

\* the task returns; rem = remaining_.fetch_sub(1) - 1; if (rem == 0) break
WorkerFinish(w) ==
    /\ wpc[w] = "fin"
    /\ arr' = Invoke(wrun[w])
    /\ remaining' = FetchSub(remaining)
    /\ wrun' = [wrun EXCEPT ![w] = NoRun]
    /\ wpc' = [wpc EXCEPT ![w] = IF FetchSub(remaining) = 0
                                 THEN "wait" ELSE "claim"]
    /\ UNCHANGED <<cfgVars, clockVars, active, nextChunk, dispatchToken,
                   shutdown, localToken, widx, frame, terminate,
                   deterministicHash, drv, calls, ran, iter>>

WorkerStep(w) ==
    \/ WorkerStart(w)
    \/ WorkerWake(w)
    \/ WorkerClaim(w)
    \/ WorkerCompare(w)
    \/ WorkerExec(w)
    \/ WorkerFinish(w)

Worker == \E w \in Workers : WorkerStep(w)

(* --------------------------- specifications ---------------------------- *)
Settings(hz, maxFrames, adaptive, maxCatchUp, threads, chunkSize) ==
    [hz |-> hz, maxFrames |-> maxFrames, adaptive |-> adaptive,
     maxCatchUp |-> maxCatchUp, threads |-> threads, mainHelps |-> TRUE,
     chunkSize |-> chunkSize, driftLogInterval |-> 0]

\* one phase, two range tasks over two elements
RegPair == << Phase("A", 1, 2, 1, 2, TRUE) >>
\* two phases whose element counts differ
RegTwo == << Phase("A", 1, 1, 1, 1, TRUE), Phase("B", 1, 1, 1, 2, TRUE) >>
\* the same with two range tasks in the larger phase
RegTwoPair == << Phase("A", 0, 1, 0, 1, TRUE), Phase("B", 1, 2, 1, 2, TRUE) >>
\* an empty phase, a disabled phase, and a phase without callbacks
RegEmpty == << Phase("E", 1, 1, 1, 0, TRUE), Phase("D", 1, 1, 1, 1, FALSE),
               Phase("N", 0, 0, 0, 1, TRUE) >>
\* one phase, one range task, whose last chunk is short when chunkSize = 2
RegOdd == << Phase("A", 1, 1, 1, 3, TRUE) >>
\* one phase over a single element
RegOne == << Phase("P", 1, 1, 1, 1, TRUE) >>
\* two phases with two serial subsystems and two reductions each
RegOrder == << Phase("A", 2, 0, 2, 0, TRUE), Phase("B", 2, 1, 2, 1, TRUE) >>
RegCarry == << Phase("A", 0, 1, 0, 1, TRUE), Phase("B", 1, 1, 0, 2, TRUE) >>

\* the runs of the dispatcher: punctual clock, no catch-up, no exit request
Scenarios ==
    {<<Settings(1000, 2, FALSE, 0, t, 1), RegPair>> : t \in ThreadChoices}
    \cup {<<Settings(1000, 1, FALSE, 0, t, 1), RegTwo>> : t \in ThreadChoices}
    \cup {<<Settings(1000, 2, FALSE, 0, t, 2), RegOdd>> : t \in ThreadChoices}
    \cup {<<Settings(1000, 2, FALSE, 0, t, 1), RegEmpty>> : t \in ThreadChoices}

Init == \E sc \in Scenarios : Constructed(sc[1], sc[2])

\* one step over RegTwoPair, on the driver alone or with a second worker
InitTwo ==
    \E t \in ThreadChoices :
        Constructed(Settings(1000, 1, FALSE, 0, t, 1), RegTwoPair)

\* one step over RegPair, on the driver alone or with a second worker
InitFair ==
    \E t \in ThreadChoices :
        Constructed(Settings(1000, 1, FALSE, 0, t, 1), RegPair)

\* one step over RegOne, on the driver alone or with a second worker, the
\* claims of the wait loop counted up to SpinCap
InitSpin ==
    \E t \in ThreadChoices :
        ConstructedCap(Settings(1000, 1, FALSE, 0, t, 1), RegOne, SpinCap)

\* two steps over RegOrder, on the driver alone or with a second worker
InitOrder ==
    \E t \in ThreadChoices :
        Constructed(Settings(1000, 2, FALSE, 0, t, 1), RegOrder)

\* one step over RegPair with Settings.mainHelps = false
InitNoHelp ==
    \E t \in ThreadChoices :
        Constructed([Settings(1000, 1, FALSE, 0, t, 1)
                        EXCEPT !.mainHelps = FALSE], RegPair)

\* one step over RegPair with Settings.chunkSize = 0
InitZeroChunk ==
    \E t \in ThreadChoices :
        Constructed(Settings(1000, 1, FALSE, 0, t, 0), RegPair)

\* two steps over RegCarry with a second worker; one step on the driver
\* alone
InitCarry ==
    \/ Constructed(Settings(1000, 2, FALSE, 0, 2, 1), RegCarry)
    \/ Constructed(Settings(1000, 1, FALSE, 0, 1, 1), RegOne)

\* the runs of the pacing loop: every budget up to MaxFrames and none,
\* catch-up on and off, settings before their repair
PaceScenarios ==
    {<<Settings(500, mf, ad, mc, t, 1), RegOne>> :
        mf \in -1..MaxFrames, ad \in BOOLEAN, mc \in -1..MaxCatchUpBound,
        t \in 0..1}
    \cup {<<Settings(500, 2, ad, 1, 2, 1), RegOne>> : ad \in BOOLEAN}

InitPace == \E sc \in PaceScenarios : Constructed(sc[1], sc[2])

\* the pacing loop with the drift observed at no frame (stride 0 or
\* negative), at every frame and at every second frame
InitDrift ==
    \E ad \in BOOLEAN, t \in ThreadChoices, n \in -1..2 :
        Constructed([Settings(500, 2, ad, 1, t, 1)
                        EXCEPT !.driftLogInterval = n], RegOne)

\* the pacing loop above 1000 Hz (subSteps_ = 2): two frames at 2000 Hz,
\* catch-up on and off, on the driver alone or with a second worker
InitRate ==
    \E ad \in BOOLEAN, t \in ThreadChoices :
        Constructed(Settings(2000, 2, ad, 1, t, 1), RegOne)

(* --------------------------- failing closures --------------------------- *)
\* a worker loop that swallows the exception and counts the chunk as done
WorkerFailSwallowed(w) ==
    /\ wpc[w] = "fin"
    /\ iter.failed < 0
    /\ iter' = [iter EXCEPT !.failed = frame]
    /\ remaining' = FetchSub(remaining)
    /\ wrun' = [wrun EXCEPT ![w] = NoRun]
    /\ wpc' = [wpc EXCEPT ![w] = IF FetchSub(remaining) = 0
                                 THEN "wait" ELSE "claim"]
    /\ UNCHANGED <<cfgVars, clockVars, active, nextChunk, dispatchToken,
                   shutdown, localToken, widx, frame, terminate,
                   deterministicHash, drv, arr, calls, ran>>

\* (*active_.task)(...) throws on a worker: nothing in processActiveRange
\* or workerLoop catches, the exception leaves the thread function and
\* std::terminate ends the process with all its threads
WorkerFail(w) ==
    /\ wpc[w] = "fin"
    /\ iter.failed < 0
    /\ iter' = [iter EXCEPT !.failed = frame]
    /\ drv' = [drv EXCEPT !.pc = "aborted", !.run = NoRun]
    /\ wpc' = [v \in WorkerIds |-> "none"]
    /\ wrun' = [v \in WorkerIds |-> NoRun]
    /\ UNCHANGED <<cfgVars, clockVars, dispVars, localToken, widx, frame,
                   terminate, deterministicHash, arr, calls, ran>>

\* rt(...) throws on the driver, in the wait loop or in the else branch:
\* nothing in doOneStep, advance or run catches, the exception leaves
\* run() and reaches its caller
DriverFail ==
    /\ drv.pc \in {"dFin", "sertask"}
    /\ iter.failed < 0
    /\ iter' = [iter EXCEPT !.failed = frame]
    /\ drv' = [drv EXCEPT !.pc = "threw", !.run = NoRun]
    /\ UNCHANGED <<cfgVars, clockVars, dispVars, workVars, frame, terminate,
                   deterministicHash, arr, calls, ran>>

\* two steps over RegPair, on the driver alone or with a second worker
InitFail ==
    \E t \in ThreadChoices :
        Constructed(Settings(1000, 2, FALSE, 0, t, 1), RegPair)

(* ------------------- reconfiguration and destruction ------------------- *)
\* the Settings handed to the constructor and to applySettings: valid
\* values and values in need of repair
ApplyChoices ==
    {Settings(hz, 1, FALSE, mc, t, 1) :
        hz \in {0, 1000}, mc \in {-1, 0}, t \in 0..2}

\* !threads_.empty()
ThreadsLive == \E w \in WorkerIds : wpc[w] # "none"

\* applySettings(s) by the owner, outside run(): the repairs,
\* recalcTiming, and, when the thread count changes, stopThreads (here up
\* to shutdown_.store(true)) followed by initThreads
ApplySettingsOf(s) ==
    /\ drv.pc \in {"idle", "done"}
    /\ iter.applies < MaxApplies
    /\ LET st == applySettings(s) IN
          /\ settings' = st
          /\ timing' = recalcTiming(st.hz)
          /\ startReal' = now
          /\ iter' = [iter EXCEPT !.given = s, !.applies = @ + 1,
                                  !.tokenAt = dispatchToken]
          /\ IF ThreadsLive /\ st.threads # threadCount
             THEN /\ shutdown' = TRUE
                  /\ drv' = [drv EXCEPT !.pc = "stopTok", !.after = drv.pc]
             ELSE UNCHANGED <<shutdown, drv>>
    /\ UNCHANGED <<phases, threadCount, now, nextFrameTarget, active,
                   nextChunk, remaining, dispatchToken, workVars, frame,
                   terminate, deterministicHash, arr, calls, ran, logger,
                   legacyVars>>

ApplySettingsCall == \E s \in ApplyChoices : ApplySettingsOf(s)

\* ~SimCore(): stopThreads, up to shutdown_.store(true)
Destroy ==
    /\ drv.pc \in {"idle", "done"}
    /\ IF ThreadsLive
       THEN /\ shutdown' = TRUE
            /\ drv' = [drv EXCEPT !.pc = "stopTok", !.after = "destroyed"]
       ELSE /\ drv' = [drv EXCEPT !.pc = "destroyed", !.after = "destroyed"]
            /\ UNCHANGED shutdown
    /\ iter' = [iter EXCEPT !.tokenAt = dispatchToken]
    /\ UNCHANGED <<cfgVars, clockVars, active, nextChunk, remaining,
                   dispatchToken, workVars, frame, terminate,
                   deterministicHash, arr, calls, ran>>

\* stopThreads: dispatchToken_.fetch_add(1)
StopToken ==
    /\ drv.pc = "stopTok"
    /\ dispatchToken' = dispatchToken + 1
    /\ drv' = [drv EXCEPT !.pc = "join"]
    /\ UNCHANGED <<cfgVars, clockVars, active, nextChunk, remaining,
                   shutdown, workVars, frame, terminate, deterministicHash,
                   arr, calls, ran, iter>>

\* stopThreads: every join has returned, threads_.clear(); in applySettings
\* initThreads follows: its own stopThreads finds threads_ empty,
\* threadCount_ = settings_.threads, shutdown_ = false, the workers start
JoinThreads ==
    /\ drv.pc = "join"
    /\ \A w \in WorkerIds : wpc[w] \in {"exit", "none"}
    /\ drv' = [drv EXCEPT !.pc = drv.after]
    /\ localToken' = [w \in WorkerIds |-> 0]
    /\ IF drv.after = "destroyed"
       THEN /\ wpc' = [w \in WorkerIds |-> "none"]
            /\ UNCHANGED <<threadCount, shutdown>>
       ELSE /\ threadCount' = settings.threads
            /\ shutdown' = FALSE
            /\ wpc' = [w \in WorkerIds |->
                          IF w <= settings.threads THEN "start" ELSE "none"]
    /\ UNCHANGED <<settings, phases, timing, clockVars, active, nextChunk,
                   remaining, dispatchToken, widx, wrun, frame, terminate,
                   deterministicHash, arr, calls, ran, iter, logger,
                   legacyVars>>

\* one step over RegOne after construction from every choice of Settings
InitLife == \E s \in ApplyChoices : Constructed(s, RegOne)

Driver ==
    \/ Run \/ Advance \/ SerialSubsystem \/ SerialRangeTask \/ Reduction
    \/ EndStep \/ WaitDeadline \/ Adapt \/ Return

Dispatcher ==
    \/ PubTask \/ PubTotal \/ PubCount \/ PubFrame \/ PubNext
    \/ PubRemaining \/ PubToken \/ DriverLoad \/ DriverClaim
    \/ DriverFinish

Next == Driver \/ Dispatcher \/ Worker

Spec == Init /\ [][Next]_vars

SpecTwo == InitTwo /\ [][Next]_vars
SpecCarry == InitCarry /\ [][Next]_vars
SpecNoHelp == InitNoHelp /\ [][Next]_vars
SpecSpin == InitSpin /\ [][Next]_vars
SpecOrder == InitOrder /\ [][Next]_vars
SpecZeroChunk == InitZeroChunk /\ [][Next]_vars

\* every thread that can take a step is eventually scheduled
Fairness ==
    /\ WF_vars(Driver \/ Dispatcher)
    /\ \A w \in WorkerIds : WF_vars(WorkerStep(w))

SpecFair == InitFair /\ [][Next]_vars /\ Fairness

NextPace ==
    \/ Next
    \/ RequestExit \/ SerialSubsystemExit \/ WaitDeadlineLate \/ CatchUp

SpecPace == InitPace /\ [][NextPace]_vars
SpecRate == InitRate /\ [][NextPace]_vars
SpecDrift == InitDrift /\ [][NextPace]_vars

NextFail ==
    \/ Next
    \/ DriverFail
    \/ \E w \in Workers : WorkerFail(w)

SpecFail == InitFail /\ [][NextFail]_vars

NextLife ==
    \/ Next
    \/ ApplySettingsCall \/ Destroy \/ StopToken \/ JoinThreads

SpecLife == InitLife /\ [][NextLife]_vars

\* stopThreads runs to its end once called; whether and when the owner
\* reconfigures or destroys the SimCore is left open
SpecLifeFair ==
    InitLife /\ [][NextLife]_vars /\ Fairness
             /\ WF_vars(StopToken \/ JoinThreads)

\* the timing of a SimCore constructed with one rate and reconfigured to
\* another: rates below, at and above 1000 Hz, multiples of 1000 and not,
\* with a period of whole microseconds and not, and 0 (repaired to 1); the
\* fields recalcTiming does not read vary with them
RateChoices == {0, 1, 3, 500, 999, 1000, 1001, 1250, 1999, 2000, 2001, 3000,
                3125, 7000, 15625, 20001}
TimingChoices ==
    {Settings(hz, 1, ad, mc, 1, 1) :
        hz \in RateChoices, ad \in BOOLEAN, mc \in {-1, 0, 2}}
InitTiming == \E s \in TimingChoices : Constructed(s, RegOne)
NextTiming == \E s \in TimingChoices : ApplySettingsOf(s)
SpecTiming == InitTiming /\ [][NextTiming]_vars

\* a Logger used on its own: levels set, sinks attached, records logged
InitLog == Constructed(Settings(1000, 1, FALSE, 0, 1, 1), RegOne)
NextLog ==
    \/ \E l \in Levels : SetLevel(l)
    \/ AddSink
    \/ \E c \in LogCalls : Log(c[1], c[2])
SpecLog == InitLog /\ [][NextLog]_vars

\* a ring sink of every capacity 1 .. MaxCap, written to up to MaxWrites
\* times
InitRing == Constructed(Settings(1000, 1, FALSE, 0, 1, 1), RegOne)
NextRing ==
    \/ \E cap \in 1..MaxCap : MakeRingSink(cap)
    \/ \E m \in Msgs : RingWrite(m)
SpecRing == InitRing /\ [][NextRing]_vars

\* a WorkerPool of one or two workers, with and without the owner helping,
\* takes up to MaxCalls parallel_for calls of counts 0 .. MaxCount and may
\* be destroyed between calls
InitPool == Constructed(Settings(1000, 1, FALSE, 0, 1, 1), RegOne)
NextPool ==
    \/ \E n \in 0..MaxPoolThreads, mh \in BOOLEAN : WorkerPool(n, mh)
    \/ \E count \in 0..MaxCount : parallel_for(count)
    \/ PoolMain
    \/ PoolMainSpuriousWake
    \/ \E w \in PoolIds : PoolWorker(w)
    \/ PoolDestroy
SpecPool == InitPool /\ [][NextPool]_vars

\* every thread that can take a step eventually takes one; when the owner
\* calls parallel_for or destroys the pool, and whether a wait wakes
\* without a notify, is left open
SpecPoolFair ==
    /\ SpecPool
    /\ WF_vars(PoolMain)
    /\ \A w \in PoolIds : WF_vars(PoolWorker(w))

\* the run loops of the sub-stepping versions at 500, 2000 and 2500 Hz
OuterChoices ==
    {<<hz, mf, ad, mc>> : hz \in {500, 2000, 2500}, mf \in -1..3,
                          ad \in BOOLEAN, mc \in {0, 2}}
InitOuter == Constructed(Settings(1000, 1, FALSE, 0, 1, 1), RegOne)
NextOuter ==
    \/ \E c \in OuterChoices : OuterSimCore(c[1], c[2], c[3], c[4])
    \/ OuterRun
    \/ OuterStepTop
    \/ OuterSubStep
    \/ OuterStepEnd
    \/ OuterPace
    \/ OuterCatch
SpecOuter == InitOuter /\ [][NextOuter]_vars

(* ============================== claims ================================= *)
StepPcs == {"serial", "sertask", "reduce", "incr", "pubTask", "pubTotal",
            "pubCount", "pubFrame", "pubNext", "pubRem", "pubTok", "dLoad",
            "dClaim", "dFin"}
WaitPcs == {"dLoad", "dClaim", "dFin"}
InStep == drv.pc \in StepPcs
NoExitRequest == iter.exitAt = -2

\* C1: with a finite budget maxFrames >= 0 and no requestExit, frame never
\* exceeds maxFrames, equals maxFrames when run() has returned, and with
\* maxFrames = 0 no step is entered and no callback runs.
C1_FrameCount ==
    (settings.maxFrames >= 0 /\ NoExitRequest) =>
        /\ frame <= settings.maxFrames
        /\ drv.pc = "done" => frame = settings.maxFrames
        /\ settings.maxFrames = 0 =>
              /\ ~InStep
              /\ calls = EmptyBag
              /\ \A p \in DOMAIN ran : ran[p].ser = 0 /\ ran[p].red = 0

\* run() has returned at the budget after an iteration with catch-up steps
C1_Witness ==
    /\ drv.pc = "done"
    /\ NoExitRequest
    /\ settings.adaptive
    /\ settings.maxFrames = 2
    /\ frame = 2
    /\ iter.steps = 2

\* C8: once requestExit() has been called, before run() or from a callback
\* of step n, no further step begins (regular or catch-up), so run() returns
\* with frame = n + 1 (0 when called before run), and terminate stays set.
C8_ExitStopsSteps ==
    iter.exitAt >= -1 =>
        /\ terminate
        /\ InStep => frame = iter.exitAt
        /\ frame <= iter.exitAt + 1
        /\ drv.pc = "done" => frame = iter.exitAt + 1

\* C9: at the end of a pacing iteration the number of catch-up steps is
\* floor(behind / dt) clamped to [0, maxCatchUp], cut short only by the
\* frame budget; without adaptive the iteration ran exactly one step.
C9_CatchUpSteps ==
    LET extras == iter.steps - 1
        want   == Min(Max(iter.behind \div timing.dtMicro, 0),
                      settings.maxCatchUp)
    IN  /\ settings.adaptive /\ drv.pc \notin {"idle"} =>
              extras <= settings.maxCatchUp
        /\ drv.pc = "ret" =>
              IF settings.adaptive
              THEN /\ extras <= want
                   /\ extras < want => BudgetSpent
              ELSE extras = 0

\* an iteration that was more than maxCatchUp periods late ran exactly
\* maxCatchUp catch-up steps with budget to spare
C9_Witness ==
    /\ drv.pc = "ret"
    /\ settings.adaptive
    /\ settings.maxCatchUp = 1
    /\ iter.behind \div timing.dtMicro = 2
    /\ iter.steps = 2
    /\ ~BudgetSpent

(* ---------------------- invocations of range tasks ---------------------- *)
RECURSIVE SumCopies(_)
SumCopies(S) ==
    IF S = {} THEN 0
    ELSE LET r == CHOOSE x \in S : TRUE
         IN  CopiesIn(r, calls) + SumCopies(S \ {r})

\* how often task t was entered on the slice [b, e) in the current step
TimesRun(t, b, e) ==
    SumCopies({r \in BagToSet(calls) : r.task = t /\ r.b = b /\ r.e = e})

\* the slices of the chunks 0 .. totalChunks - 1 of phase p
ChunksOf(p) ==
    {[b |-> ChunkBegin(x, Chunk),
      e |-> ChunkEnd(x, Chunk, phases[p].elementCount)] :
        x \in 0..(TotalChunks(phases[p].elementCount) - 1)}

\* the invocations some thread is inside of
InFlight ==
    {wrun[w] : w \in {v \in Workers : wpc[v] = "fin"}}
    \cup (IF drv.pc = "dFin" THEN {drv.run} ELSE {})

\* in the current step the driver has left the wait loop of range task k
\* of phase p
Past(p, k) ==
    /\ InStep
    /\ \/ drv.ph > p
       \/ /\ drv.ph = p
          /\ \/ drv.pc = "reduce"
             \/ drv.pc \notin {"serial", "sertask"} /\ drv.k > k

\* C2: for every range task dispatched on the parallel path, every chunk
\* index of [0, totalChunks) is executed exactly once: no invocation is
\* repeated or off the chunk grid, and once the driver has left the wait
\* loop every chunk has been invoked.
C2_ChunkCoverage ==
    \A p \in DOMAIN phases :
      (phases[p].enabled /\ ParallelPath(p)) =>
        \A k \in 1..phases[p].nTasks :
          /\ \A r \in BagToSet(calls) :
                r.task = <<p, k>> =>
                    /\ [b |-> r.b, e |-> r.e] \in ChunksOf(p)
                    /\ TimesRun(<<p, k>>, r.b, r.e) = 1
          /\ Past(p, k) =>
                \A c \in ChunksOf(p) : TimesRun(<<p, k>>, c.b, c.e) = 1

\* C3: when the driver is at the reductions of a phase, every chunk of
\* every range task of the phase has been invoked and no thread is still
\* inside an invocation of a range task of that phase.
C3_ReductionAfterChunks ==
    drv.pc = "reduce" =>
        /\ \A r \in InFlight : r.task[1] # drv.ph
        /\ ParallelPath(drv.ph) =>
              \A k \in 1..phases[drv.ph].nTasks, c \in ChunksOf(drv.ph) :
                  TimesRun(<<drv.ph, k>>, c.b, c.e) >= 1

\* C4: no chunk of range task k + 1 of a phase is entered before every
\* chunk of range task k has been invoked and has returned.
C4_OneRangeAtATime ==
    \A p \in DOMAIN phases : \A k \in 1..(phases[p].nTasks - 1) :
        (\E r \in BagToSet(calls) : r.task = <<p, k + 1>>) =>
            /\ \A r \in InFlight : r.task # <<p, k>>
            /\ ParallelPath(p) =>
                  \A c \in ChunksOf(p) : TimesRun(<<p, k>>, c.b, c.e) >= 1

\* C5: while a step is running, every invocation of a range task of a
\* phase p that was entered in the step or that some thread (driver or
\* worker) is inside of finds all serial subsystems of p returned in this
\* step.
C5_SerialBeforeChunks ==
    InStep =>
        \A r \in BagToSet(calls) \cup InFlight :
            r.task[1] \in DOMAIN phases =>
                ran[r.task[1]].ser = phases[r.task[1]].nSerial

\* the array of phase p at the reductions of step f in the run on one
\* thread: every element written once by every range task of every step
ExpectedArr(p, f) ==
    [x \in 0..(MaxElems - 1) |->
        IF x < phases[p].elementCount THEN (f + 1) * phases[p].nTasks ELSE 0]

LastReducer ==
    LET R == {p \in DOMAIN phases : phases[p].enabled /\ phases[p].nRed > 0}
    IN  CHOOSE p \in R : \A q \in R : q <= p

\* C6: the array a reduction folds, and the hash left after run(), are
\* those of the run on one thread, for every worker count and interleaving.
C6_Determinism ==
    /\ drv.pc = "reduce" => arr[drv.ph] = ExpectedArr(drv.ph, frame)
    /\ (drv.pc = "done" /\ settings.maxFrames > 0) =>
          deterministicHash =
              Fnv(FnvSeed, ExpectedArr(LastReducer, settings.maxFrames - 1),
                  0, phases[LastReducer].elementCount)

\* C7: every dispatch terminates: once the driver has published a range
\* and entered its wait loop, it eventually leaves the loop.
C7_DispatchTerminates ==
    (drv.pc = "dLoad") ~> (drv.pc \notin WaitPcs)

\* C10: a phase with elementCount = 0 has none of its range tasks invoked,
\* while its serial subsystems and reductions run once per step.
C10_EmptyPhaseNotInvoked ==
    \A p \in DOMAIN phases :
        (phases[p].enabled /\ phases[p].elementCount = 0) =>
            /\ \A r \in BagToSet(calls) : r.task[1] # p
            /\ drv.pc = "incr" =>
                  /\ ran[p].ser = phases[p].nSerial
                  /\ ran[p].red = phases[p].nRed

\* the dispatcher state as the constructor leaves it
FreshDispatcher ==
    /\ active = [task |-> NoTask, totalChunks |-> 0, elementCount |-> 0,
                 chunkSize |-> 0, frame |-> 0]
    /\ nextChunk = 0
    /\ remaining = 0
    /\ dispatchToken = 0

\* C11: with threads = 1 the driver invokes every range task of every
\* enabled phase exactly once per step with (0, elementCount), in insertion
\* order; the dispatcher state stays as constructed and no worker enters a
\* range task.
C11_SingleThreadPath ==
    threadCount = 1 =>
        /\ FreshDispatcher
        /\ \A w \in WorkerIds :
              wpc[w] \in {"start", "wait", "none"} /\ wrun[w] = NoRun
        /\ \A r \in BagToSet(calls) :
              LET p == r.task[1] IN
              /\ p \in DOMAIN phases /\ phases[p].enabled
              /\ r.b = 0 /\ r.e = phases[p].elementCount
              /\ CopiesIn(r, calls) = 1
              /\ \A k \in 1..(r.task[2] - 1) :
                    TimesRun(<<p, k>>, 0, phases[p].elementCount) = 1
              /\ \A q \in 1..(p - 1) : \A k \in 1..phases[q].nTasks :
                    phases[q].enabled =>
                        TimesRun(<<q, k>>, 0, phases[q].elementCount) = 1
        /\ drv.pc = "incr" =>
              \A p \in DOMAIN phases : \A k \in 1..phases[p].nTasks :
                  phases[p].enabled =>
                      TimesRun(<<p, k>>, 0, phases[p].elementCount) = 1

\* the second step on one thread is complete: both range tasks were called
C11_Witness ==
    /\ threadCount = 1
    /\ drv.pc = "incr"
    /\ frame = 1
    /\ \E p \in DOMAIN phases :
          /\ phases[p].nTasks = 2
          /\ TimesRun(<<p, 2>>, 0, phases[p].elementCount) = 1

\* C12: with mainHelps = false the driver is never inside a chunk of a
\* dispatched range: it only waits for remaining == 0.
C12_DriverOnlyWaits ==
    ~settings.mainHelps => (drv.pc # "dFin" /\ drv.run = NoRun)

\* C13: a chunkSize of 0 is never used as a chunk size and is treated as
\* 1: every chunk of a parallel dispatch has exactly one element, so a
\* range of N elements is published as N chunks.
C13_ZeroChunkIsOne ==
    settings.chunkSize = 0 =>
        /\ drv.pc \in WaitPcs =>
              /\ active.chunkSize = 1
              /\ active.totalChunks = phases[drv.ph].elementCount
        /\ \A r \in BagToSet(calls) :
              (r.task[1] \in DOMAIN phases /\ ParallelPath(r.task[1])) =>
                  r.e = r.b + 1

\* the worker threads that have been started and not yet joined
LiveWorkers == {w \in WorkerIds : wpc[w] # "none"}

\* C14: after construction and after every applySettings(s) the stored
\* settings are s with hz <= 0 replaced by 1, threads = 0 by 1 and
\* maxCatchUp < 0 by 0 and nothing else changed, so hz > 0, threads >= 1
\* and maxCatchUp >= 0; the number of live workers equals settings.threads.
C14_ConfigRepair ==
    LET s == iter.given IN
    drv.pc \notin {"stopTok", "join", "destroyed"} =>
        /\ settings.hz = (IF s.hz <= 0 THEN 1 ELSE s.hz)
        /\ settings.threads = (IF s.threads = 0 THEN 1 ELSE s.threads)
        /\ settings.maxCatchUp = (IF s.maxCatchUp < 0 THEN 0 ELSE s.maxCatchUp)
        /\ \A f \in DOMAIN s \ {"hz", "threads", "maxCatchUp"} :
              settings[f] = s[f]
        /\ settings.hz > 0 /\ settings.threads >= 1 /\ settings.maxCatchUp >= 0
        /\ Cardinality(LiveWorkers) = settings.threads
        /\ threadCount = settings.threads

\* applySettings with threads = 0, hz = 0 and maxCatchUp = -1 has returned
\* on a SimCore that ran two workers
C14_Witness ==
    /\ iter.applies = 1
    /\ drv.pc = "done"
    /\ iter.given.threads = 0 /\ iter.given.hz = 0
    /\ iter.given.maxCatchUp = -1
    /\ dispatchToken = iter.tokenAt + 1
    /\ Cardinality(LiveWorkers) = 1

\* what holds while and after stopThreads runs
ShutdownSafe ==
    /\ drv.pc \in {"stopTok", "join", "destroyed"} => shutdown
    /\ drv.pc \in {"join", "destroyed"} =>
          dispatchToken = iter.tokenAt + 1
    /\ drv.pc \in {"stopTok", "join", "destroyed"} =>
          \A r \in InFlight : r.f < frame
    /\ drv.pc = "destroyed" =>
          /\ LiveWorkers = {}
          /\ InFlight = {}
    /\ (drv.pc = "idle" /\ iter.applies = 1) =>
          dispatchToken <= iter.tokenAt + 1

\* C15: destroying a SimCore that was never run or whose run() has
\* returned sets shutdown, increments the dispatch token once, and every
\* worker, idle or still in the consumer loop of the last range, eventually
\* leaves its loop without entering a chunk of a new range and is joined;
\* the stopThreads that initThreads issues on the stopped set changes
\* nothing.
C15_ShutdownTerminates ==
    /\ []ShutdownSafe
    /\ (drv.pc = "stopTok" /\ drv.after = "destroyed")
           ~> (drv.pc = "destroyed")

\* a SimCore with two workers has run its step and has been destroyed
C15_Witness ==
    /\ drv.pc = "destroyed"
    /\ threadCount = 2
    /\ frame = 1
    /\ shutdown
    /\ LiveWorkers = {}

\* C16: every chunk invocation entered during the step that started at
\* frame k, on any thread, receives frame = k, so all chunks of one range
\* task receive the same frame.
C16_FrameArgument ==
    InStep => \A r \in BagToSet(calls) : r.f = frame

\* C17: once a closure invoked for a chunk has failed, on a worker or on
\* the driver, the failure has left run() or ended the process, frame
\* stays at the step of the failure, and the run is never complete.
C17_FailureStopsRun ==
    iter.failed >= 0 =>
        /\ drv.pc \in {"threw", "aborted"}
        /\ frame = iter.failed
        /\ drv.pc = "aborted" => LiveWorkers = {}

\* a chunk failed on a worker in the second step
C17_Witness ==
    /\ iter.failed = 1
    /\ drv.pc = "aborted"
    /\ threadCount = 2
    /\ frame = 1

\* C18: after a run of M = maxFrames steps (regular or catch-up) the
\* profiler holds the scope "Frame" with count M and, for every enabled
\* phase, the scope "Phase:<name>" with count M; a disabled phase has none.
C18_ProfileCounts ==
    (drv.pc = "done" /\ settings.maxFrames >= 0 /\ NoExitRequest) =>
        /\ drv.prof.frame = settings.maxFrames
        /\ \A p \in DOMAIN phases :
              drv.prof.phase[p] =
                  (IF phases[p].enabled THEN settings.maxFrames ELSE 0)

\* two steps of one phase, the second one a catch-up step
C18_Witness ==
    /\ drv.pc = "done"
    /\ NoExitRequest
    /\ settings.maxFrames = 2
    /\ iter.steps = 2
    /\ drv.prof.frame = 2
    /\ drv.prof.phase[1] = 2


\* what the i-th sink is due from the calls h: level and message of every
\* call whose level was not below the Logger's and that found the sink attached
RECURSIVE RecordsDue(_, _)
RecordsDue(h, i) ==
    IF h = <<>> THEN <<>>
    ELSE LET c == Head(h)
             rest == RecordsDue(Tail(h), i)
         IN IF c.l >= c.level /\ i <= c.sinks
            THEN <<[level |-> c.l, msg |-> c.msg]>> \o rest
            ELSE rest

\* C19: a log call at level l on a Logger at level L hands every attached
\* sink exactly one record, of level l, when l >= L, and hands no sink
\* anything when l < L; so at Info a debug call leaves no record and an
\* info call exactly one.
C19_LevelFilter ==
    \A i \in DOMAIN logger.sinks :
        [k \in DOMAIN logger.sinks[i] |->
            [level |-> logger.sinks[i][k].level,
             msg |-> logger.sinks[i][k].msg]]
        = RecordsDue(logger.hist, i)

\* a Logger at Info with one sink, after debug("Hidden") and info("Shown"):
\* the sink holds the one record "Shown"
C19_Witness ==
    /\ logger.hist = <<[l |-> Debug, msg |-> "Hidden", level |-> Info, sinks |-> 1],
                       [l |-> Info, msg |-> "Shown", level |-> Info, sinks |-> 1]>>
    /\ logger.sinks = <<  <<[level |-> Info, msg |-> "Shown", seq |-> 0]>>  >>


\* C20: for every rate hz > 0, subSteps is the least whole number of
\* milliseconds' worth of steps covering hz (ceil(hz / 1000)) when
\* hz > 1000 and 1 otherwise, so 1 at hz = 1000 and at least 2 above it;
\* dt is 1 / hz (here: the whole microseconds of 1 / hz, exact when hz
\* divides 10^6); outerDt is dt * subSteps; and above 1000 Hz
\* outerDt = subSteps / hz is at least 1 ms.
C20_TimingModel ==
    LET hz == settings.hz
        n == timing.subSteps
    IN  /\ hz > 0
        /\ IF hz > 1000
           THEN n * 1000 >= hz /\ (n - 1) * 1000 < hz /\ n >= 2
           ELSE n = 1
        /\ timing.dtMicro * hz <= 1000000
        /\ (timing.dtMicro + 1) * hz > 1000000
        /\ timing.outerDt = timing.dtMicro * n
        /\ hz > 1000 => n * 1000000 >= 1000 * hz
        /\ (hz > 1000 /\ 1000000 % hz = 0) => timing.outerDt >= 1000

\* a SimCore reconfigured to 1250 Hz: two steps of 800 us per outer
\* iteration of 1600 us
C20_Witness ==
    /\ iter.applies = 1
    /\ settings.hz = 1250
    /\ timing = [subSteps |-> 2, dtMicro |-> 800, outerDt |-> 1600]

(* --------------------------- timing and pacing -------------------------- *)
\* C21: a call of applySettings, and recalcTiming within it, changes the
\* derived timing only: frame, nextFrameTarget, startReal and terminate
\* are after the call what they were before it.
C21_TimingPure ==
    [][iter'.applies # iter.applies =>
          /\ frame' = frame
          /\ nextFrameTarget' = nextFrameTarget
          /\ startReal' = startReal
          /\ terminate' = terminate]_vars

(* ------------------------ the dispatcher's counters --------------------- *)
\* C22: remaining is always within [0, totalChunks] of the published
\* range; while the driver is in the wait loop of a range it never grows,
\* and a decrement is applied only to a positive value; and remaining is
\* stored only when no invocation whose decrement is still to come is in
\* flight.
C22_RemainingBounds ==
    /\ [](remaining \in 0..active.totalChunks)
    /\ [][/\ (drv.pc \in WaitPcs /\ drv'.pc \in WaitPcs) =>
                remaining' <= remaining
          /\ (remaining' # remaining /\ drv.pc # "pubRem") => remaining > 0
          /\ drv.pc = "pubRem" =>
                \A w \in Workers : wpc[w] \notin {"exec", "fin"}]_vars

\* C23: while the driver is in the wait loop of a published range,
\* nextChunk is at most totalChunks + threads: no consumer adds to it more
\* than once after the last chunk has been claimed.
C23_NextChunkBounds ==
    drv.pc \in WaitPcs => nextChunk <= active.totalChunks + threadCount

\* the driver has written part of a descriptor and not yet the token
MidPublication ==
    drv.pc \in {"pubTotal", "pubCount", "pubFrame", "pubNext", "pubRem",
                "pubTok"}

\* C24: no worker holds a claim or reads the descriptor while the driver
\* is in the middle of a publication, and every invocation entered in a
\* step was made from one completely published range: its task is a
\* registered one, its slice is a chunk of that task's phase, and its
\* frame is the frame of the step.
C24_PublicationFirst ==
    /\ MidPublication => \A w \in Workers : wpc[w] \notin {"cmp", "exec"}
    /\ InStep =>
          \A r \in BagToSet(calls) :
              /\ r.task[1] \in DOMAIN phases
              /\ ParallelPath(r.task[1]) =>
                    [b |-> r.b, e |-> r.e] \in ChunksOf(r.task[1])
              /\ r.f = frame

(* --------------------------- order of callbacks ------------------------- *)
\* C25: when the driver is at a serial subsystem or a reduction, is about
\* to increment frame, or waits for the deadline, no thread is inside an
\* invocation of a range task.
C25_StrictlySequential ==
    drv.pc \in {"serial", "reduce", "incr", "wait"} => InFlight = {}

\* C26: frame is never negative and equals the number of completed steps
\* (the steps begun, less the one in progress); it changes only by the
\* increment at the end of a step, by exactly 1, when every serial
\* subsystem and reduction of every enabled phase has run in the step and
\* no invocation of a range task is still in flight.
C26_FrameCountsSteps ==
    /\ [](/\ frame >= 0
          /\ frame = drv.prof.frame - (IF InStep THEN 1 ELSE 0))
    /\ [][frame' # frame =>
            /\ frame' = frame + 1
            /\ drv.pc = "incr"
            /\ \A p \in DOMAIN phases :
                  phases[p].enabled =>
                      /\ ran[p].ser = phases[p].nSerial
                      /\ ran[p].red = phases[p].nRed
            /\ InFlight = {}]_vars

\* the serial subsystems and reductions of phase p that have run in the
\* current step when the driver is at its present position: all of them
\* for a phase before the driver's, none for a phase after it, and in the
\* driver's phase the ones inserted before the one it is about to invoke
RanByNow(p) ==
    IF ~phases[p].enabled \/ p > drv.ph THEN [ser |-> 0, red |-> 0]
    ELSE IF p < drv.ph
         THEN [ser |-> phases[p].nSerial, red |-> phases[p].nRed]
    ELSE IF drv.pc = "serial" THEN [ser |-> drv.k - 1, red |-> 0]
    ELSE IF drv.pc = "reduce"
         THEN [ser |-> phases[p].nSerial, red |-> drv.k - 1]
    ELSE [ser |-> phases[p].nSerial, red |-> 0]

\* C27: within a step the phases are walked in index order, and in each
\* enabled phase the serial subsystems and then the reductions are invoked
\* one after the other in insertion order, each exactly once per step, by
\* the driver and by no worker.
C27_PhaseOrder ==
    /\ [](InStep => \A p \in DOMAIN phases : ran[p] = RanByNow(p))
    /\ [][ran' # ran =>
            /\ drv.pc \in {"serial", "reduce", "advance", "catchup"}
            /\ drv'.pc # drv.pc \/ drv'.k # drv.k
            /\ wpc' = wpc]_vars

\* with a second worker running, the driver is at the second reduction of
\* the second phase: both serial subsystems of both phases and both
\* reductions of the first phase have run, and one reduction of the second
C27_Witness ==
    /\ phases = RegOrder
    /\ threadCount = 2
    /\ drv.pc = "reduce" /\ drv.ph = 2 /\ drv.k = 2
    /\ ran = << [ser |-> 2, red |-> 2], [ser |-> 2, red |-> 1] >>
    /\ frame = 1

(* ------------------------------ the deadline ---------------------------- *)
\* C28: within run() nextFrameTarget changes only at the end of the
\* regular step of an iteration, before the wait, and then by
\* outerDt = dt * subSteps.
C28_DeadlineAdvance ==
    [][(nextFrameTarget' # nextFrameTarget /\ drv.pc # "idle") =>
          /\ drv.pc = "incr" /\ ~drv.inCatchUp /\ drv'.pc = "wait"
          /\ timing.outerDt = timing.dtMicro * timing.subSteps
          /\ nextFrameTarget' = nextFrameTarget + timing.outerDt]_vars

\* the driver is in the adaptive part of an iteration: at the burst loop
\* or inside one of its catch-up steps
InBurst == drv.pc = "catchup" \/ (InStep /\ drv.inCatchUp)

\* C29: nothing the driver does in the adaptive burst of an iteration
\* changes nextFrameTarget; from the deadline wait of an iteration to its
\* end, nextFrameTarget - startReal is the number of iterations started in
\* the run times the advance of one iteration, however many catch-up
\* steps have run.
C29_BurstKeepsDeadline ==
    /\ [][InBurst => nextFrameTarget' = nextFrameTarget]_vars
    /\ []((drv.pc \in {"wait", "adapt", "ret"} \/ InBurst) =>
            nextFrameTarget - startReal = iter.started * timing.dtMicro)

\* the end of a second iteration that ran a catch-up step: three steps
\* done, the deadline two periods after the start
C29_Witness ==
    /\ drv.pc = "ret"
    /\ settings.adaptive
    /\ iter.started = 2
    /\ iter.steps = 2
    /\ frame = 3
    /\ nextFrameTarget - startReal = 2 * timing.dtMicro

\* C30: the driver leaves the deadline wait only at a time now >=
\* nextFrameTarget, so the adaptive part of the iteration, its catch-up
\* steps and the regular step of the next iteration all run at or after
\* the deadline; without adaptive the step that finds frame = k >= 1
\* starts at or after startReal + k * dt.
C30_WaitsForDeadline ==
    /\ [][(drv.pc = "wait" /\ drv'.pc # "wait") =>
             now' >= nextFrameTarget']_vars
    /\ []((drv.pc \in {"adapt", "ret"} \/ InBurst) => now >= nextFrameTarget)
    /\ []((InStep /\ ~drv.inCatchUp /\ iter.started >= 2) =>
             now >= nextFrameTarget)
    /\ []((InStep /\ ~settings.adaptive /\ frame >= 1) =>
             now >= startReal + frame * timing.dtMicro)

\* without adaptive, the third step of a run begins exactly two periods
\* after the start
C30_Witness ==
    /\ ~settings.adaptive
    /\ drv.pc = "serial"
    /\ frame = 2
    /\ iter.started = 3
    /\ now = startReal + 2 * timing.dtMicro

(* --------------------------------- drift -------------------------------- *)
\* C31: with adaptive on, at the end of every pacing iteration the
\* simulated time frame * dt is not ahead of the wall-clock time elapsed
\* since the start of the run, now - startReal.
C31_NoOverCorrection ==
    (settings.adaptive /\ drv.pc = "ret") =>
        frame * timing.dtMicro <= now - startReal

\* C32: lastDrift changes only at the drift observation of an iteration
\* whose frame is a multiple of a positive driftLogInterval, and then to
\* simT - realT; with driftLogInterval = 0 it keeps its initial value 0
\* whatever the drift is.
C32_DriftStride ==
    /\ [][drv'.lastDrift # drv.lastDrift =>
            /\ drv.pc = "adapt"
            /\ settings.driftLogInterval > 0
            /\ frame % settings.driftLogInterval = 0
            /\ drv'.lastDrift = frame * timing.dtMicro - (now - startReal)]_vars
    /\ [](settings.driftLogInterval = 0 => drv.lastDrift = 0)

\* the end of an iteration that ran late with the stride at 0: the drift
\* is not zero and lastDrift still is
C32_Witness ==
    /\ settings.driftLogInterval = 0
    /\ drv.pc = "ret"
    /\ frame * timing.dtMicro - (now - startReal) < 0
    /\ drv.lastDrift = 0

(* ----------------------------- chunk geometry --------------------------- *)
\* the number of invocations of range task t in the current step
Invocations(t) == SumCopies({r \in BagToSet(calls) : r.task = t})

\* every invocation of a range task of a parallel phase received a
\* non-empty interval inside [0, N) that starts on the chunk grid and has
\* length C unless it ends at N
GeometryOfCalls ==
    \A r \in BagToSet(calls) :
        LET p == r.task[1] IN
        (p \in DOMAIN phases /\ ParallelPath(p)) =>
            /\ 0 <= r.b /\ r.b < r.e /\ r.e <= phases[p].elementCount
            /\ r.b % Chunk = 0
            /\ r.e = Min(r.b + Chunk, phases[p].elementCount)

\* once the driver has left the wait loop of a range task it was invoked
\* ceil(N/C) times, and never more often before
CountOfCalls ==
    \A p \in DOMAIN phases :
      (phases[p].enabled /\ ParallelPath(p)) =>
        \A k \in 1..phases[p].nTasks :
          /\ Invocations(<<p, k>>) <= TotalChunks(phases[p].elementCount)
          /\ Past(p, k) =>
                Invocations(<<p, k>>) = TotalChunks(phases[p].elementCount)

\* C33: a parallel dispatch with elementCount N > 0 and chunk size C makes
\* exactly ceil(N/C) invocations, each on an interval with
\* 0 <= begin < end <= N, begin = idx * C and end = min(begin + C, N).
C33_ChunkGeometry == GeometryOfCalls /\ CountOfCalls

(* ----------------------------- dispatch token --------------------------- *)
\* C34: the dispatch token never decreases; it changes only by the
\* increment of a range task published on the parallel path and by the
\* increment of stopThreads, each by exactly one; a worker leaves its
\* yield loop for the consumer loop only when its private copy differs from
\* the token, and adopts the token as it does, so it enters once per change.
C34_DispatchToken ==
    [][/\ dispatchToken' >= dispatchToken
       /\ dispatchToken' # dispatchToken =>
             /\ dispatchToken' = dispatchToken + 1
             /\ \/ drv.pc = "pubTok" /\ ParallelPath(drv.ph)
                \/ drv.pc = "stopTok"
       /\ (drv.pc \in {"pubTok", "stopTok"} /\ drv'.pc # drv.pc) =>
             dispatchToken' = dispatchToken + 1
       /\ \A w \in WorkerIds :
             (wpc[w] = "wait" /\ wpc'[w] = "claim") =>
                 /\ localToken[w] # dispatchToken
                 /\ localToken'[w] = dispatchToken
                 /\ dispatchToken' = dispatchToken]_vars

\* a worker is in the consumer loop on the token of a published range
\* task, after an earlier stopThreads has already advanced the token
C34_Witness ==
    /\ iter.applies = 1
    /\ dispatchToken >= 2
    /\ \E w \in Workers : wpc[w] = "claim" /\ localToken[w] = dispatchToken

(* ------------------------------ ring buffer ----------------------------- *)
\* the last k elements of a sequence
LastOf(seq, k) == SubSeq(seq, Len(seq) - k + 1, Len(seq))

\* C39: for a RingBufferSink of capacity cap >= 1 that has been written n
\* messages, snapshot() is the sequence of the last min(n, cap) messages,
\* oldest first, and buf_ never holds more than cap messages.
C39_RingSnapshot ==
    LET r == logger.ring IN
    r.cap >= 1 =>
        /\ snapshot(r) = LastOf(r.written, Min(Len(r.written), r.cap))
        /\ Len(r.buf) <= r.cap

\* a ring of capacity above 1 that has been overwritten part of the way
\* round, with two different messages in it: buf_ is not in writing order
C39_Witness ==
    LET r == logger.ring IN
    /\ r.cap >= 2
    /\ Len(r.written) > r.cap
    /\ r.head # 0
    /\ snapshot(r) # r.buf

(* ------------------------------ WorkerPool ------------------------------ *)
\* the threads inside task_(i), each with the task it entered
PoolInside ==
    {pool.wt[w] : w \in {v \in 1..pool.n : pool.wpc[v] = "exec"}}
    \cup (IF pool.mpc = "exec" THEN {pool.mt} ELSE {})

\* the threads that hold an index they have not tested yet or are about to
\* claim one, being inside runChunk
PoolInRunChunk ==
    {w \in 1..pool.n : pool.wpc[w] \in {"claim", "test", "exec"}}

\* how often task(i) of call c has to be invoked
PoolDue(c, i) == IF i < pool.counts[c] THEN 1 ELSE 0

\* C35: task(i) of a parallel_for call is never invoked more often than
\* once for i < count and never for another i, and when the call has
\* returned it has been invoked once for every i < count; this for both
\* calls made on the pool.
C35_ExactlyOnce ==
    \A c \in 1..Len(pool.counts), i \in 0..(MaxCount - 1) :
        /\ pool.runs[<<c, i>>] <= PoolDue(c, i)
        /\ c <= pool.returned => pool.runs[<<c, i>>] = PoolDue(c, i)

\* C36: after parallel_for has returned no thread is inside a task of the
\* calls that have returned, no worker is still inside runChunk while the
\* owner is between calls, and no worker has incremented finished_ more
\* than once since the call stored 0.
C36_WaitsForWorkers ==
    /\ \A t \in PoolInside : t > pool.returned
    /\ pool.mpc = "idle" => PoolInRunChunk = {}
    /\ \A w \in 1..pool.n : pool.winc[w] <= 1

\* C37: every parallel_for call eventually returns and the destructor
\* eventually joins every worker.
C37_NoDeadlock ==
    /\ \A c \in 1..MaxCalls : (pool.call = c) ~> (pool.returned >= c)
    /\ (pool.mpc = "join") ~> (pool.mpc = "destroyed")

(* --------------------------- sub-stepping loops -------------------------- *)
\* C38: with maxFrames >= 0 the frame counter of the sub-stepping loops
\* never exceeds maxFrames, and it equals maxFrames when run() has returned
\* without requestExit.
C38_SubStepFrameLimit ==
    (outer.made /\ outer.maxFrames >= 0) =>
        /\ outer.frame <= outer.maxFrames
        /\ (outer.pc = "done" /\ ~outer.terminate) =>
               outer.frame = outer.maxFrames

====
